---- MODULE Spec2Model ----
(***************************************************************************)
(* A model of PowerRedis (src/unnamed/part_003): the token lock            *)
(* (lock / unlock), the list head drain (lpopCountCompat), the list        *)
(* traversal (getListIterator / getList), the deduplicating key scan       *)
(* (keys), the bulk read (getMany) and the bulk delete (dropMany), each    *)
(* run against one store shared with other clients.  Every store round     *)
(* trip (one awaited command) is one atomic step of the store; the code    *)
(* between two awaits runs in the same step as the command whose reply it  *)
(* consumes.                                                               *)
(***************************************************************************)
EXTENDS Integers, Sequences, FiniteSets, TLC

VARIABLES
    \* ---- the store: string keys with expiry (lock entries)
    kv,          \* key -> [tok, ttl]; tok = 0 when the key is absent
    \* ---- lock(): one record of locals per caller
    pc,          \* position of each caller
    token,       \* const token (line 427)
    attempt,     \* let attempt (line 433)
    retries,     \* const retries (line 428)
    ttlMs,       \* const ttlMs (line 431)
    lockRes,     \* what lock() returned: "none" | "lock" | "null" | "error"
    unlockRet,   \* the booleans returned by this caller's unlock() calls
    rawRet,      \* what unlock(k, token) with the raw key k returned to the caller
    acq,         \* history: lock calls that returned a DistLock since the last removal
    removed,     \* history: an entry has expired or been released
    \* ---- the store: one list key
    list,        \* the items of the list, head first
    lAll,        \* history: every item ever in the list, in list order
    \* ---- lpopCountCompat(): one record of locals per draining client
    dPc,         \* position of each drainer
    dKind,       \* what the client's lpop does (see NativeLpop)
    dCount,      \* the count argument
    dRet,        \* the array the call returned
    \* ---- the store: the keyspace and its cursor scan
    present,     \* the keys matching the pattern that exist now
    sSeen,       \* history: keys the store returned in the running traversal
    sDup,        \* history: the store returned some key a second time
    sReply,      \* history: the cursor of the store's last scan reply, 0 before
    stable,      \* history: keys that existed during the whole traversal so far
    touched,     \* history: a key was created or deleted during the traversal
    \* ---- keys(): the locals of the scanning client
    kPc,         \* "idle" | "scan" | "done"
    kLimit,      \* the limit argument
    kCursor,     \* let cursor (line 155); 0 is the sentinel '0'
    kAcc,        \* const keys: the Set, in insertion order
    kScans,      \* history: scan calls issued by this keys() call
    kOut,        \* the array keys() returned
    \* ---- getMany(): the locals of the reading client
    gPc,         \* "idle" | "keys" | "mget" | "done"
    gChunk,      \* the chunkSize argument
    gI,          \* let i (line 196)
    gResult,     \* const result: key -> decoded value
    gCalls,      \* history: the chunks handed to mget, in call order
    \* ---- dropMany(): the locals of the deleting client
    xPc,         \* "idle" | "scan" | "del" | "done" | "threw"
    xSize,       \* the size argument
    xCursor,     \* let cursor (line 395)
    xTotal,      \* let total (line 396)
    xPage,       \* const keys of the page being deleted (line 399)
    xI,          \* let i (line 406)
    xOut,        \* how the call ended: a number returned or an error thrown
    xInit,       \* history: the keys that existed when the call began
    xSum,        \* history: the lengths of the pages the store returned, added up
    xDeleted,    \* history: keys the delete commands of the call removed
    xCmds,       \* history: store commands the call issued
    xUnlink,     \* the client has an unlink function
    xCmd,        \* history: the last store command of the call, [op, keys]
    xSent,       \* history: keys submitted for deletion since the last scan
    \* ---- getListIterator() / getList(): one record of locals per reader
    iPc,         \* "idle" | "native" | "fallback" | "llen" | "range" | "done"
    iRemove,     \* the remove argument
    iLimit,      \* the limit argument
    iKind,       \* what the reader's client does on lpop (see NativeLpop)
    iN,          \* const n (line 247)
    iStart,      \* let start (line 251)
    iOut,        \* history: the items yielded so far, which is getList's result
    iBatches,    \* history: the number of batches yielded
    iSnap,       \* history: the list when the traversal began
    iStay,       \* history: the items in the list during the whole traversal
    iTouched,    \* history: another client changed the list during the traversal
    hist,        \* whether the histories of the list and the readers are kept
    \* ---- toKeyString() / toPatternString(): one call
    bParts,      \* the arguments: a sequence of segments, each a sequence of characters
    bOp,         \* "none" | "key" | "pattern": the function that was called
    bOut,        \* how the call ended: the string returned or an error thrown
    \* ---- toPayload() / fromPayload(): one value written and read back
    vIn,         \* the Jsonish value handed to toPayload
    vRaw,        \* a string another client stored, or null
    vText,       \* what toPayload returned
    vBack,       \* fromPayload of vText
    vDec,        \* fromPayload of vRaw
    vPc,         \* "idle" | "in" | "text" | "back": the calls made so far
    \* ---- lock(): the backoff wait of one call
    wOptMin,     \* opts.minDelayMs, when given
    wOptMax,     \* opts.maxDelayMs, when given
    wMinDelay,   \* const minDelay (line 429)
    wMaxDelay,   \* const maxDelay (line 430)
    wDelay,      \* the argument of wait() (line 449)
    wPc,         \* "idle" | "opts" | "range" | "waited"
    \* ---- the client and the environment, read by checkConnection()
    cStatus,     \* redis.status
    cStrict,     \* isStrictCheckConnection
    \* ---- the store: one counter key, and incr(): one record per caller
    nVal,        \* the integer held by the key; 0 when the key is absent
    nTtl,        \* the time to live last set on the key; 0 when it has none
    nPc,         \* position of each caller of incr()
    nArg,        \* the ttl argument
    nRes,        \* const result (line 460)
    nApplied,    \* history: the store has executed this call's PEXPIRE
    nObs         \* what another client last read: the value, the TTL, and
                 \* whether some incr() call was between its two commands

lockVars == <<kv, pc, token, attempt, retries, ttlMs, lockRes, unlockRet, rawRet,
              acq, removed>>

listVars == <<list, lAll, dPc, dKind, dCount, dRet>>

scanVars == <<present, sSeen, sDup, sReply, stable, touched,
              kPc, kLimit, kCursor, kAcc, kScans, kOut>>

manyVars == <<gPc, gChunk, gI, gResult, gCalls>>

\* what the actions on the lock, the list and the key scan leave alone
dropVars == <<xPc, xSize, xCursor, xTotal, xPage, xI, xOut,
              xInit, xSum, xDeleted, xCmds, xUnlink, xCmd, xSent>>

iterVars == <<iPc, iRemove, iLimit, iKind, iN, iStart, iOut, iBatches,
              iSnap, iStay, iTouched, hist>>

buildVars == <<bParts, bOp, bOut>>

payloadVars == <<vIn, vRaw, vText, vBack, vDec, vPc>>

backoffVars == <<wOptMin, wOptMax, wMinDelay, wMaxDelay, wDelay, wPc>>

connVars == <<cStatus, cStrict>>

incrVars == <<nVal, nTtl, nPc, nArg, nRes, nApplied, nObs>>

pureVars == <<buildVars, payloadVars, backoffVars, connVars, incrVars>>

restVars == <<manyVars, dropVars, iterVars, pureVars>>

stateVars == <<lockVars, listVars, scanVars, manyVars, dropVars, iterVars,
               backoffVars, connVars, incrVars>>

vars == <<lockVars, listVars, scanVars, restVars>>

-----------------------------------------------------------------------------
(* Bounds *)

MaxRetries == 2
MaxTtl     == 2

MaxItems   == 4      \* items ever in the list (initial and pushed)
MaxCount   == 3      \* largest count argument

MaxKeys    == 3      \* keys that match the pattern
MaxPage    == 2      \* keys in one scan page
MaxPages   == 3      \* scan calls of one traversal
MaxLimit   == 3      \* largest limit argument
MaxChunk   == 2      \* largest chunkSize argument
MaxSize    == 2      \* largest size argument of dropMany

MaxSegLen  == 2      \* characters in one segment of a key or pattern

\* three callers, each making one lock() call
Callers == {1, 2, 3}

\* two clients, each making one lpopCountCompat() call
Drainers == {1, 2}

\* two clients, each making one getListIterator() / getList() call
Readers == {1, 2}

-----------------------------------------------------------------------------
(* The store's string keys *)

RawKey  == "res"
LockKey == "lock:res"            \* this.toKeyString('lock', key)
StoreKeys == {RawKey, LockKey}

NoEntry == [tok |-> 0, ttl |-> 0]

\* SET key value PX ttl NX: the reply 'OK' is given only when the key is absent
SetNxReply(entry) == IF entry = NoEntry THEN "OK" ELSE "nil"

\* SET key value PX ttl (no NX) always replies 'OK'
SetReplyNoNx(entry) == "OK"

\* SET key value PX ttl XX: the reply 'OK' is given only when the key is present
SetXxReply(entry) == IF entry # NoEntry THEN "OK" ELSE "nil"

\* a set that writes the value whatever the reply says
LockSetStoreOverwrite(reply, key, tok, ttl) ==
    [kv EXCEPT ![key] = [tok |-> tok, ttl |-> ttl]]

\* the reply of the conditional set issued by lock() at line 436
LockSetReply(entry) == SetNxReply(entry)

\* the store after the set of line 436 with the given reply
LockSetStore(reply, key, tok, ttl) ==
    IF reply = "OK" THEN [kv EXCEPT ![key] = [tok |-> tok, ttl |-> ttl]] ELSE kv

\* UNLOCK_LUA replying 1 on a match without issuing DEL
UnlockLuaNoDel(key, tok) ==
    IF kv[key].tok = tok /\ kv[key] # NoEntry THEN <<1, kv>> ELSE <<0, kv>>

\* UNLOCK_LUA without the comparison: DEL whatever is stored
UnlockLuaNoCompare(key, tok) ==
    IF kv[key] # NoEntry THEN <<1, [kv EXCEPT ![key] = NoEntry]>> ELSE <<0, kv>>

\* UNLOCK_LUA: <<reply, store after the script>>; GET, compare and DEL run as
\* one script, which the store executes without interleaving other commands
UnlockLua(key, tok) ==
    IF kv[key].tok = tok /\ kv[key] # NoEntry
    THEN <<1, [kv EXCEPT ![key] = NoEntry]>>
    ELSE <<0, kv>>

-----------------------------------------------------------------------------
(* checkConnection() *)

\* the values of redis.status
Statuses == {"wait", "connecting", "ready", "reconnecting", "close", "end"}

\* a guard that lets 'connecting' and 'reconnecting' pass in strict mode too
CheckConnectionLax(status, strict) ==
    status = "ready" \/ status \in {"connecting", "reconnecting"}

\* lines 42-44, for a client that is set
CheckConnection(status, strict) ==
    \/ status = "ready"
    \/ IF strict THEN FALSE ELSE status \in {"connecting", "reconnecting"}

-----------------------------------------------------------------------------
(* lock(key, opts) *)

\* a token every caller shares
SharedToken(c) == 1

\* line 427, crypto.randomBytes(16).toString('hex'): 128 random bits, a value
\* that no other call draws
FreshToken(c) == c

\* opts.retries taken as it is
RetriesRaw(optRetries) == optRetries

\* line 428: Math.max(0, opts?.retries ?? 5)
Retries(optRetries) == IF optRetries > 0 THEN optRetries ELSE 0

\* attempt <= retries: one more wait after the last attempt
AttemptsLeftLate(att, ret) == att <= ret

\* lines 435 and 447: attempt < retries
AttemptsLeft(att, ret) == att < ret

\* lines 424-435: the locals, then the loop test before the first attempt
LockCall(c, optRetries, optTtl) ==
    /\ pc[c] = "idle"
    /\ CheckConnection(cStatus, cStrict)
    /\ token'     = [token EXCEPT ![c] = FreshToken(c)]
    /\ retries'   = [retries EXCEPT ![c] = Retries(optRetries)]
    /\ ttlMs'     = [ttlMs EXCEPT ![c] = optTtl]
    /\ attempt'   = [attempt EXCEPT ![c] = 0]
    /\ unlockRet' = [unlockRet EXCEPT ![c] = <<>>]
    /\ IF AttemptsLeft(0, Retries(optRetries))
       THEN /\ pc' = [pc EXCEPT ![c] = "set"]
            /\ lockRes' = [lockRes EXCEPT ![c] = "none"]
       ELSE /\ pc' = [pc EXCEPT ![c] = "null"]
            /\ lockRes' = [lockRes EXCEPT ![c] = "null"]
    /\ UNCHANGED <<kv, rawRet, acq, removed, listVars, scanVars, restVars>>

\* lines 424-426: throw new Error('Redis connection error.')
LockRefused(c) ==
    /\ pc[c] = "idle"
    /\ ~CheckConnection(cStatus, cStrict)
    /\ pc' = [pc EXCEPT ![c] = "refused"]
    /\ lockRes' = [lockRes EXCEPT ![c] = "connection"]
    /\ UNCHANGED <<kv, token, attempt, retries, ttlMs, unlockRet, rawRet, acq, removed,
                   listVars, scanVars, restVars>>

\* lines 436-451: one conditional set and what follows its reply
LockAttempt(c) ==
    /\ pc[c] = "set"
    /\ LET reply == LockSetReply(kv[LockKey]) IN
       /\ kv' = LockSetStore(reply, LockKey, token[c], ttlMs[c])
       /\ IF reply = "OK"
          THEN /\ pc' = [pc EXCEPT ![c] = "held"]
               /\ lockRes' = [lockRes EXCEPT ![c] = "lock"]
               /\ acq' = acq + 1
               /\ UNCHANGED attempt
          ELSE /\ attempt' = [attempt EXCEPT ![c] = attempt[c] + 1]
               /\ IF AttemptsLeft(attempt[c] + 1, retries[c])
                  THEN /\ pc' = [pc EXCEPT ![c] = "wait"]
                       /\ UNCHANGED lockRes
                  ELSE /\ pc' = [pc EXCEPT ![c] = "null"]
                       /\ lockRes' = [lockRes EXCEPT ![c] = "null"]
               /\ UNCHANGED acq
    /\ UNCHANGED <<token, retries, ttlMs, unlockRet, rawRet, removed, listVars, scanVars, restVars>>

\* a lock() that catches the rejection of the set and returns null
LockAttemptSwallows(c) ==
    /\ pc[c] = "set"
    /\ pc' = [pc EXCEPT ![c] = "null"]
    /\ lockRes' = [lockRes EXCEPT ![c] = "null"]
    /\ UNCHANGED <<kv, token, attempt, retries, ttlMs, unlockRet, rawRet, acq, removed, listVars, scanVars, restVars>>

\* line 436 when the store call rejects (connectivity or protocol failure): the
\* error leaves lock(); the command may or may not have reached the store
LockAttemptThrows(c) ==
    /\ pc[c] = "set"
    /\ \E executed \in BOOLEAN :
          kv' = IF executed
                THEN LockSetStore(LockSetReply(kv[LockKey]), LockKey, token[c], ttlMs[c])
                ELSE kv
    /\ pc' = [pc EXCEPT ![c] = "threw"]
    /\ lockRes' = [lockRes EXCEPT ![c] = "error"]
    /\ UNCHANGED <<token, attempt, retries, ttlMs, unlockRet, rawRet, acq, removed, listVars, scanVars, restVars>>

\* line 449: the backoff wait is over
LockWake(c) ==
    /\ pc[c] = "wait"
    /\ pc' = [pc EXCEPT ![c] = "set"]
    /\ UNCHANGED <<kv, token, attempt, retries, ttlMs, lockRes, unlockRet, rawRet,
                   acq, removed, listVars, scanVars, restVars>>

\* an unlock that derives the lock key from the key it is given
UnlockTargetDerived(key) == LockKey

\* line 456: eval(UNLOCK_LUA, 1, key, token), the key as it was passed
UnlockTarget(key) == key

\* lines 443 and 455-457: the DistLock's unlock(), callable more than once
Unlock(c) ==
    /\ pc[c] \in {"held", "released"}
    /\ LET r == UnlockLua(UnlockTarget(LockKey), token[c]) IN
       /\ kv' = r[2]
       /\ unlockRet' = [unlockRet EXCEPT ![c] = Append(@, r[1] = 1)]
       /\ acq' = IF r[2] # kv THEN 0 ELSE acq
       /\ removed' = (removed \/ r[2] # kv)
    /\ pc' = [pc EXCEPT ![c] = IF pc[c] = "held" THEN "released" ELSE "done"]
    /\ UNCHANGED <<token, attempt, retries, ttlMs, lockRes, rawRet, listVars, scanVars, restVars>>

\* lines 455-457: unlock(k, record.token), called once by the holder with the
\* key it passed to lock()
UnlockRaw(c) ==
    /\ pc[c] = "held" /\ rawRet[c] = "none"
    /\ LET r == UnlockLua(UnlockTarget(RawKey), token[c]) IN
       /\ kv' = r[2]
       /\ rawRet' = [rawRet EXCEPT ![c] = IF r[1] = 1 THEN "true" ELSE "false"]
       /\ acq' = IF r[2] # kv THEN 0 ELSE acq
       /\ removed' = (removed \/ r[2] # kv)
    /\ UNCHANGED <<pc, token, attempt, retries, ttlMs, lockRes, unlockRet, listVars,
                   scanVars, restVars>>

\* the store drops an entry whose PX time has run out
Expire(k) ==
    /\ kv[k] # NoEntry
    /\ kv' = [kv EXCEPT ![k] = NoEntry]
    /\ acq' = 0
    /\ removed' = TRUE
    /\ UNCHANGED <<pc, token, attempt, retries, ttlMs, lockRes, unlockRet, rawRet, listVars, scanVars, restVars>>


-----------------------------------------------------------------------------
(* The store's list commands *)

Min(a, b) == IF a < b THEN a ELSE b
Max(a, b) == IF a > b THEN a ELSE b

\* the inclusive 1-based index range <<first, last>> that the 0-based
\* start/stop of LRANGE and LTRIM select in a list of n items: negative
\* indices count from the tail, out-of-range ones are clamped
IndexRange(n, start, stop) ==
    LET s == IF start < 0 THEN Max(n + start, 0) ELSE start
        e == IF stop < 0 THEN n + stop ELSE Min(stop, n - 1)
    IN  <<s + 1, e + 1>>

\* LRANGE key start stop
LRange(l, start, stop) ==
    LET r == IndexRange(Len(l), start, stop)
    IN  IF r[1] > r[2] THEN <<>> ELSE SubSeq(l, r[1], r[2])

\* LTRIM key start stop: the list keeps exactly the selected range
LTrim(l, start, stop) ==
    LET r == IndexRange(Len(l), start, stop)
    IN  IF r[1] > r[2] THEN <<>> ELSE SubSeq(l, r[1], r[2])

\* an lpop that replies with the first items and leaves them in the list
NativeLpopKeep(kind, l, count) ==
    <<[kind |-> "arr", arr |-> SubSeq(l, 1, Min(count, Len(l))), str |-> 0], l>>

\* replies of lpop as the client hands them to the caller
NilReply      == [kind |-> "nil", arr |-> <<>>, str |-> 0]
ErrReply      == [kind |-> "err", arr |-> <<>>, str |-> 0]
ArrReply(a)   == [kind |-> "arr", arr |-> a,    str |-> 0]
StrReply(x)   == [kind |-> "str", arr |-> <<>>, str |-> x]

\* what cli.lpop(key, count) does, <<reply, list afterwards>>, by client:
\*   "array"  LPOP key count: pops up to count items, replies with an array
\*   "unwrap" LPOP key count, a one-item reply handed over as a single string
\*   "single" the client ignores count: LPOP key pops one item, replies a string
\*   "throws" the command is rejected (count not supported): nothing is popped
\*   "lost"   LPOP key count runs on the server, the reply does not arrive and
\*            the call rejects
\* an empty or missing list replies null
NativeLpop(kind, l, count) ==
    IF kind = "throws" THEN <<ErrReply, l>>
    ELSE IF kind = "lost"
    THEN <<ErrReply, SubSeq(l, Min(count, Len(l)) + 1, Len(l))>>
    ELSE IF l = <<>> THEN <<NilReply, l>>
    ELSE IF kind = "single" THEN <<StrReply(Head(l)), Tail(l)>>
    ELSE LET m == Min(count, Len(l))
             popped == SubSeq(l, 1, m)
             rest == SubSeq(l, m + 1, Len(l))
         IN  IF kind = "unwrap" /\ m = 1
             THEN <<StrReply(popped[1]), rest>>
             ELSE <<ArrReply(popped), rest>>

LpopKinds == {"array", "unwrap", "single", "throws", "none"}

\* the same, and the client whose connection drops between command and reply
FaultyKinds == LpopKinds \cup {"lost"}

-----------------------------------------------------------------------------
(* lpopCountCompat(key, count) *)

\* a reply that is neither an array nor a string returned as []
NativeResultNoFallback(res) ==
    IF res.kind = "arr" THEN <<TRUE, res.arr>>
    ELSE IF res.kind = "str" THEN <<TRUE, <<res.str>>>>
    ELSE <<TRUE, <<>>>>

\* lines 112-117: <<returned, array>>; not returned means fall through
NativeResult(res) ==
    IF res.kind = "arr" THEN <<TRUE, res.arr>>
    ELSE IF res.kind = "str" THEN <<TRUE, <<res.str>>>>
    ELSE <<FALSE, <<>>>>

\* the MULTI of lines 122-127 reading one item too few
FallbackExecShortRange(l, count) ==
    << << [err |-> FALSE, isArr |-> TRUE, arr |-> LRange(l, 0, count - 2)],
          [err |-> FALSE, isArr |-> FALSE, arr |-> <<>>] >>,
       LTrim(l, count, -1) >>

\* the MULTI of lines 122-127 without the LTRIM
FallbackExecNoTrim(l, count) ==
    << << [err |-> FALSE, isArr |-> TRUE, arr |-> LRange(l, 0, count - 1)] >>, l >>

\* the MULTI of lines 122-127 trimming one item more than it reads
FallbackExecTrimMore(l, count) ==
    << << [err |-> FALSE, isArr |-> TRUE, arr |-> LRange(l, 0, count - 1)],
          [err |-> FALSE, isArr |-> FALSE, arr |-> <<>>] >>,
       LTrim(l, count + 1, -1) >>

\* lines 122-127: MULTI, LRANGE key 0 count-1, LTRIM key count -1, EXEC; the
\* store runs the queued commands as one unit: <<execRes, list afterwards>>
FallbackExec(l, count) ==
    << << [err |-> FALSE, isArr |-> TRUE, arr |-> LRange(l, 0, count - 1)],
          [err |-> FALSE, isArr |-> FALSE, arr |-> <<>>] >>,
       LTrim(l, count, -1) >>

\* lines 129-138: the reply of the LRANGE, when there is one and it is an array
FallbackResult(execRes) ==
    IF Len(execRes) = 0 THEN <<>>
    ELSE IF execRes[1].isArr THEN execRes[1].arr ELSE <<>>

\* lines 105-108: the call and the probe for cli.lpop
DrainCall(d, kind, count) ==
    /\ dPc[d] = "idle"
    /\ dKind' = [dKind EXCEPT ![d] = kind]
    /\ dCount' = [dCount EXCEPT ![d] = count]
    /\ dPc' = [dPc EXCEPT ![d] = IF kind # "none" THEN "native" ELSE "fallback"]
    /\ UNCHANGED <<list, lAll, dRet, lockVars, scanVars, restVars>>

\* lines 109-120: the native pop and the normalisation of its reply
DrainNative(d) ==
    /\ dPc[d] = "native"
    /\ LET r == NativeLpop(dKind[d], list, dCount[d])
           res == NativeResult(r[1])
       IN  /\ list' = r[2]
           /\ IF res[1]
              THEN /\ dRet' = [dRet EXCEPT ![d] = res[2]]
                   /\ dPc' = [dPc EXCEPT ![d] = "done"]
              ELSE /\ dPc' = [dPc EXCEPT ![d] = "fallback"]
                   /\ UNCHANGED dRet
    /\ UNCHANGED <<lAll, dKind, dCount, lockVars, scanVars, restVars>>

\* lines 122-138: the emulation
DrainFallback(d) ==
    /\ dPc[d] = "fallback"
    /\ LET r == FallbackExec(list, dCount[d])
       IN  /\ list' = r[2]
           /\ dRet' = [dRet EXCEPT ![d] = FallbackResult(r[1])]
    /\ dPc' = [dPc EXCEPT ![d] = "done"]
    /\ UNCHANGED <<lAll, dKind, dCount, lockVars, scanVars, restVars>>

\* line 127 when exec rejects: the error leaves lpopCountCompat; the queued
\* commands may or may not have run
DrainFallbackThrows(d) ==
    /\ dPc[d] = "fallback"
    /\ \E executed \in BOOLEAN :
          list' = IF executed THEN FallbackExec(list, dCount[d])[2] ELSE list
    /\ dPc' = [dPc EXCEPT ![d] = "threw"]
    /\ UNCHANGED <<lAll, dKind, dCount, dRet, lockVars, scanVars, restVars>>

\* another client's RPUSH of a new item
Push ==
    /\ Len(lAll) < MaxItems
    /\ list' = Append(list, Len(lAll) + 1)
    /\ lAll' = Append(lAll, Len(lAll) + 1)
    /\ UNCHANGED <<dPc, dKind, dCount, dRet, lockVars, scanVars, restVars>>

-----------------------------------------------------------------------------
(* The store's SCAN cursor MATCH pattern COUNT n *)

ScanKeys == 1..MaxKeys

Items(q) == {q[i] : i \in 1..Len(q)}

HasDup(q) == \E i, j \in 1..Len(q) : i # j /\ q[i] = q[j]

\* the pages a scan call may return: keys that exist when the call runs and
\* match the pattern, in any order.  One call visits a position of the keyspace
\* once, so a page holds no key twice; a later page may hold a key again.
\* The page may be empty whatever the cursor returned with it.
Pages == {q \in UNION {[1..n -> present] : n \in 0..MaxPage} : ~HasDup(q)}

\* the cursors a scan call may return after `cursor`: the next position, or
\* the sentinel; the traversal ends after MaxPages calls at the latest
NextCursors(cursor) == IF cursor + 1 < MaxPages THEN {cursor + 1, 0} ELSE {0}

-----------------------------------------------------------------------------
(* keys(pattern, limit, scanSize) *)

\* lines 162-170: the for loop over one page, <<keys, returned early>>
RECURSIVE AccumulatePage(_, _, _)
AccumulatePage(acc, found, limit) ==
    IF found = <<>> THEN <<acc, FALSE>>
    ELSE IF Head(found) \in Items(acc)
    THEN AccumulatePage(acc, Tail(found), limit)
    ELSE LET next == Append(acc, Head(found))
         IN  IF Len(next) >= limit THEN <<next, TRUE>>
             ELSE AccumulatePage(next, Tail(found), limit)

\* the loop without the keys.has(k) test: every found key is appended
RECURSIVE AccumulateNoDedup(_, _, _)
AccumulateNoDedup(acc, found, limit) ==
    IF found = <<>> THEN <<acc, FALSE>>
    ELSE LET next == Append(acc, Head(found))
         IN  IF Len(next) >= limit THEN <<next, TRUE>>
             ELSE AccumulateNoDedup(next, Tail(found), limit)

\* the loop on a Set created anew for every page
AccumulateFresh(acc, found, limit) == AccumulatePage(<<>>, found, limit)

\* the loop with the test keys.size > limit in place of keys.size >= limit
RECURSIVE AccumulateLate(_, _, _)
AccumulateLate(acc, found, limit) ==
    IF found = <<>> THEN <<acc, FALSE>>
    ELSE IF Head(found) \in Items(acc)
    THEN AccumulateLate(acc, Tail(found), limit)
    ELSE LET next == Append(acc, Head(found))
         IN  IF Len(next) > limit THEN <<next, TRUE>>
             ELSE AccumulateLate(next, Tail(found), limit)

\* lines 154 and 162-170: the loop on the one Set that lives across the pages
Accumulate(acc, found, limit) == AccumulatePage(acc, found, limit)

\* SCAN's guarantee: a full iteration, which ends with the reply 0 after at
\* most MaxPages pages, returns every key that existed from its start to its
\* end; so the keys not yet returned fit in the pages still to come
MayReply(next, found) ==
    LET missing == stable \ (sSeen \cup Items(found))
    IN  IF next = 0 THEN missing = {}
        ELSE Cardinality(missing) <= MaxPage * (MaxPages - next)

\* a cursor that is reset after every page
CursorRestart(next) == 0

\* lines 160 and 401: cursor = nextCursor
CursorAfter(next) == next

\* a loop that stops after its first page whatever the cursor
ScanCompleteAtOnce(next) == TRUE

\* line 172: while (cursor !== '0'), negated
ScanComplete(next) == next = 0

\* lines 141-156: the arguments pass the checks; cursor = '0', keys = new Set()
KeysCall(limit) ==
    /\ kPc = "idle"
    /\ CheckConnection(cStatus, cStrict)
    /\ kPc' = "scan"
    /\ kLimit' = limit
    /\ kCursor' = 0
    /\ kAcc' = <<>>
    /\ kScans' = 0
    /\ sSeen' = {}
    /\ sDup' = FALSE
    /\ sReply' = 0
    /\ stable' = present
    /\ touched' = FALSE
    /\ UNCHANGED <<present, kOut, lockVars, listVars, restVars>>

\* lines 151-153: throw new Error('Redis connection error.'), which a getMany
\* that made the call lets through (line 190)
KeysRefused ==
    /\ kPc = "idle"
    /\ ~CheckConnection(cStatus, cStrict)
    /\ kPc' = "refused"
    /\ gPc' = IF gPc = "keys" THEN "refused" ELSE gPc
    /\ UNCHANGED <<present, sSeen, sDup, sReply, stable, touched, kLimit, kCursor, kAcc,
                   kScans, kOut, gChunk, gI, gResult, gCalls, lockVars, listVars,
                   dropVars, iterVars, pureVars>>

\* lines 157-173: one scan call and the loop body over its page.  The store
\* ends a traversal only when every key that existed throughout has been
\* returned in some page.
KeysScan ==
    /\ kPc = "scan"
    /\ \E next \in NextCursors(kCursor), found \in Pages :
          /\ MayReply(next, found)
          /\ sSeen' = sSeen \cup Items(found)
          /\ sDup' = (sDup \/ HasDup(found) \/ Items(found) \cap sSeen # {})
          /\ sReply' = next
          /\ kScans' = kScans + 1
          /\ kCursor' = CursorAfter(next)
          /\ LET r == Accumulate(kAcc, found, kLimit)
             IN  /\ kAcc' = r[1]
                 /\ IF r[2] \/ ScanComplete(CursorAfter(next))
                    THEN kPc' = "done" /\ kOut' = r[1]
                    ELSE UNCHANGED <<kPc, kOut>>
    /\ UNCHANGED <<present, stable, touched, kLimit, lockVars, listVars, restVars>>

\* a traversal of the keyspace is in progress
Traversing == kPc = "scan" \/ xPc \in {"scan", "del"}

\* another client creates a key that matches the pattern
CreateKey(k) ==
    /\ k \notin present
    /\ present' = present \cup {k}
    /\ touched' = (touched \/ Traversing)
    /\ UNCHANGED <<sSeen, sDup, sReply, stable, kPc, kLimit, kCursor, kAcc, kScans, kOut,
                   lockVars, listVars, restVars>>

\* the key that other clients create again during a getMany or dropMany call
WrittenKeys == {1}

\* another client deletes a key that matches the pattern
DeleteKey(k) ==
    /\ k \in present
    /\ present' = present \ {k}
    /\ touched' = (touched \/ Traversing)
    /\ stable' = IF Traversing THEN stable \ {k} ELSE stable
    /\ UNCHANGED <<sSeen, sDup, sReply, kPc, kLimit, kCursor, kAcc, kScans, kOut,
                   lockVars, listVars, restVars>>

-----------------------------------------------------------------------------
(* getListIterator(key, limit, remove), consumed by getList(key, limit, remove) *)

keyVars == <<lockVars, scanVars, manyVars, dropVars, pureVars>>

IterRunning(r) == iPc[r] \notin {"idle", "done", "refused"}

\* lines 239 and 263, and result.push(...chunk) in getList: the batch is
\* yielded, one decoded value per item in the order of the reply
Yield(out, batch) == out \o batch

\* a short batch does not end the loop
ShortBatchNever(items, limit) == FALSE

\* line 241: items.length < limit
ShortBatch(items, limit) == Len(items) < limit

\* start += limit + 1
NextStartSkip(start, limit) == start + limit + 1

\* start is left as it is
NextStartStuck(start, limit) == start

\* lines 259 and 264: start += limit
NextStart(start, limit) == start + limit

\* Math.min(start + limit, n - 1): a window one item wider
WindowStopWide(start, limit, n) == Min(start + limit, n - 1)

\* Math.min(start + limit - 2, n - 1)
WindowStopShort(start, limit, n) == Min(start + limit - 2, n - 1)

\* line 253: Math.min(start + limit - 1, n - 1)
WindowStop(start, limit, n) == Min(start + limit - 1, n - 1)

\* the histories of the other readers when reader r, or another client when
\* r = 0, takes `gone` out of the list or changes it otherwise
StayAfter(r, gone) ==
    [q \in Readers |-> IF IterRunning(q) THEN iStay[q] \ gone ELSE iStay[q]]

TouchedAfter(r) ==
    [q \in Readers |-> IF IterRunning(q) /\ q # r THEN hist ELSE iTouched[q]]

\* lines 222-232 and 247: the arguments pass the checks; the first command is
\* the pop in destructive mode and the length read otherwise
IterCall(r, kind, limit, remove) ==
    /\ iPc[r] = "idle"
    /\ CheckConnection(cStatus, cStrict)
    /\ iKind' = [iKind EXCEPT ![r] = kind]
    /\ iLimit' = [iLimit EXCEPT ![r] = limit]
    /\ iRemove' = [iRemove EXCEPT ![r] = remove]
    /\ iPc' = [iPc EXCEPT ![r] = IF ~remove THEN "llen"
                                 ELSE IF kind # "none" THEN "native" ELSE "fallback"]
    /\ iSnap' = [iSnap EXCEPT ![r] = IF hist THEN list ELSE <<>>]
    /\ iStay' = [iStay EXCEPT ![r] = IF hist THEN Items(list) ELSE {}]
    /\ iTouched' = [iTouched EXCEPT ![r] = FALSE]
    /\ UNCHANGED <<list, lAll, dPc, dKind, dCount, dRet, iN, iStart, iOut, iBatches,
                   hist, keyVars>>

\* lines 223-225: throw new Error('Redis connection error.'), which getList
\* lets through (line 216)
IterRefused(r) ==
    /\ iPc[r] = "idle"
    /\ ~CheckConnection(cStatus, cStrict)
    /\ iPc' = [iPc EXCEPT ![r] = "refused"]
    /\ UNCHANGED <<listVars, iRemove, iLimit, iKind, iN, iStart, iOut, iBatches,
                   iSnap, iStay, iTouched, hist, keyVars>>

\* lines 235-244: what the loop does with the array lpopCountCompat returned
IterBatch(r, items) ==
    /\ IF Len(items) = 0
       THEN /\ iPc' = [iPc EXCEPT ![r] = "done"]
            /\ UNCHANGED <<iOut, iBatches>>
       ELSE /\ iOut' = [iOut EXCEPT ![r] = IF hist THEN Yield(@, items) ELSE @]
            /\ iBatches' = [iBatches EXCEPT ![r] = IF hist THEN @ + 1 ELSE @]
            /\ iPc' = [iPc EXCEPT ![r] =
                         IF ShortBatch(items, iLimit[r]) THEN "done"
                         ELSE IF iKind[r] # "none" THEN "native" ELSE "fallback"]
    /\ iStay' = StayAfter(r, Items(list) \ Items(list'))
    /\ iTouched' = IF list' # list THEN TouchedAfter(r) ELSE iTouched

\* line 234 into lpopCountCompat, lines 109-120: the native pop
IterNative(r) ==
    /\ iPc[r] = "native"
    /\ LET p == NativeLpop(iKind[r], list, iLimit[r])
           res == NativeResult(p[1])
       IN  /\ list' = p[2]
           /\ IF res[1]
              THEN IterBatch(r, res[2])
              ELSE /\ iPc' = [iPc EXCEPT ![r] = "fallback"]
                   /\ UNCHANGED <<iOut, iBatches, iStay, iTouched>>
    /\ UNCHANGED <<lAll, dPc, dKind, dCount, dRet, iRemove, iLimit, iKind, iN, iStart,
                   iSnap, hist, keyVars>>

\* line 234 into lpopCountCompat, lines 122-138: the emulation
IterFallback(r) ==
    /\ iPc[r] = "fallback"
    /\ LET p == FallbackExec(list, iLimit[r])
       IN  /\ list' = p[2]
           /\ IterBatch(r, FallbackResult(p[1]))
    /\ UNCHANGED <<lAll, dPc, dKind, dCount, dRet, iRemove, iLimit, iKind, iN, iStart,
                   iSnap, hist, keyVars>>

\* lines 247-252: the length read, once; nothing to read ends the traversal
IterLlen(r) ==
    /\ iPc[r] = "llen"
    /\ iN' = [iN EXCEPT ![r] = Len(list)]
    /\ iStart' = [iStart EXCEPT ![r] = 0]
    /\ iPc' = [iPc EXCEPT ![r] = IF Len(list) > 0 THEN "range" ELSE "done"]
    /\ UNCHANGED <<listVars, iRemove, iLimit, iKind, iOut, iBatches, iSnap, iStay,
                   iTouched, hist, keyVars>>

\* lines 252-265: one window read and the loop test
IterRange(r) ==
    /\ iPc[r] = "range"
    /\ LET chunk == LRange(list, iStart[r], WindowStop(iStart[r], iLimit[r], iN[r]))
       IN  IF Len(chunk) = 0
           THEN UNCHANGED <<iOut, iBatches>>
           ELSE /\ iOut' = [iOut EXCEPT ![r] = IF hist THEN Yield(@, chunk) ELSE @]
                /\ iBatches' = [iBatches EXCEPT ![r] = IF hist THEN @ + 1 ELSE @]
    /\ iStart' = [iStart EXCEPT ![r] = NextStart(@, iLimit[r])]
    /\ iPc' = [iPc EXCEPT ![r] =
                 IF NextStart(iStart[r], iLimit[r]) < iN[r] THEN "range" ELSE "done"]
    /\ UNCHANGED <<listVars, iRemove, iLimit, iKind, iN, iSnap, iStay, iTouched,
                   hist, keyVars>>

\* the item a push adds: a new one while the histories are kept
NewItem == IF hist THEN Len(lAll) + 1 ELSE 0

\* room for one more item
MayPush == IF hist THEN Len(lAll) < MaxItems ELSE Len(list) < MaxItems

\* another client changes the list to `l` while readers are at work
OtherWrite(l, all) ==
    /\ \E r \in Readers : IterRunning(r)
    /\ list' = l
    /\ lAll' = IF hist THEN all ELSE lAll
    /\ iStay' = StayAfter(0, Items(list) \ Items(l))
    /\ iTouched' = TouchedAfter(0)
    /\ UNCHANGED <<dPc, dKind, dCount, dRet, iPc, iRemove, iLimit, iKind, iN, iStart,
                   iOut, iBatches, iSnap, hist, keyVars>>

\* another client's RPUSH of one item
OtherPush == MayPush /\ OtherWrite(Append(list, NewItem), Append(lAll, NewItem))

\* another client's LPUSH of one item
OtherHeadPush == MayPush /\ OtherWrite(<<NewItem>> \o list, <<NewItem>> \o lAll)

\* another client's LPOP
OtherPop == list # <<>> /\ OtherWrite(Tail(list), lAll)

\* another client's LTRIM key 0 -2, which drops the last item
OtherTrim == list # <<>> /\ OtherWrite(LTrim(list, 0, -2), lAll)

-----------------------------------------------------------------------------
(* The store's string values and MGET *)

\* a reply element of mget: null for a key that does not exist, its string
\* otherwise
NilStr     == [nil |-> TRUE,  s |-> ""]
RawStr(x)  == [nil |-> FALSE, s |-> x]

\* the values of the keys that match the pattern: key 1 holds the empty
\* string whenever it exists, the other keys hold a plain text
EmptyValued == {1}

\* GET key as MGET sees it when the command runs
StoredValue(k) ==
    IF k \notin present THEN NilStr
    ELSE IF k \in EmptyValued THEN RawStr("") ELSE RawStr("text")

\* MGET k1 k2 ...: one reply element per key, in argument order
MGet(chunk) == [j \in 1..Len(chunk) |-> StoredValue(chunk[j])]

\* decoded values
JNull   == [t |-> "null", v |-> ""]
JStr(x) == [t |-> "str", v |-> x]
NoProp  == [t |-> "undefined", v |-> ""]

JBool(x) == [t |-> "bool", v |-> x]     \* v is "true" or "false"
JNum(x)  == [t |-> "num", v |-> x]      \* v is the decimal text of the number
JArr(x)  == [t |-> "arr", v |-> x]      \* v is the JSON text of the array
JObj(x)  == [t |-> "obj", v |-> x]      \* v is the JSON text of the object
JFail    == [t |-> "throw", v |-> ""]   \* the parser threw

\* the Jsonish values written
JsonValues ==
    {JNull, JBool("true"), JBool("false"), JNum("0"), JNum("7"), JNum("1.5"),
     JStr(""), JStr("text"), JStr("7"), JStr("true"), JStr("yes"), JStr("no"),
     JStr("null"), JStr("[7]"), JArr("[7]"), JArr("[]"), JObj("{}")}

\* the strings found in the store
RawPayloads ==
    {NilStr} \cup {RawStr(x) : x \in {"", "text", "7", "1.5", "0", "true", "false",
                                     "yes", "no", "null", "[7]", "[]", "{}", "{bad"}}

\* jsonDecode(value): JSON.parse
JsonDecode(x) ==
    IF x \in {"0", "7", "1.5"} THEN JNum(x)
    ELSE IF x \in {"true", "false"} THEN JBool(x)
    ELSE IF x \in {"[7]", "[]"} THEN JArr(x)
    ELSE IF x = "{}" THEN JObj(x)
    ELSE IF x = "null" THEN JNull
    ELSE JFail

\* isStrBool(value) and boolNormalize(value) on the boolean words
IsStrBool(x) == x \in {"true", "false", "yes", "no"}
BoolNormalize(x) == JBool(IF x \in {"true", "yes"} THEN "true" ELSE "false")

\* lines 72-96
FromPayload(value) ==
    IF value.nil THEN JNull
    ELSE IF value.s = "" THEN JStr("")
    ELSE LET parsed == JsonDecode(value.s)
         IN  IF parsed.t \in {"num", "bool", "str", "arr", "obj"} THEN parsed
             ELSE IF IsStrBool(value.s) THEN BoolNormalize(value.s)
             ELSE JStr(value.s)

\* lines 98-103: jsonEncode for arrays and objects, String(value ?? '') for
\* the rest
ToPayload(value) ==
    IF value.t \in {"arr", "obj"} THEN value.v
    ELSE IF value.t = "null" THEN ""
    ELSE value.v

\* line 98: a value is handed to toPayload
PayloadEncode ==
    /\ vPc = "in"
    /\ vPc' = "text"
    /\ vText' = ToPayload(vIn)
    /\ UNCHANGED <<vIn, vRaw, vBack, vDec, buildVars, stateVars>>

\* line 72: the text is read back
PayloadDecodeBack ==
    /\ vPc = "text"
    /\ vPc' = "back"
    /\ vBack' = FromPayload(RawStr(vText))
    /\ UNCHANGED <<vIn, vRaw, vText, vDec, buildVars, stateVars>>

\* line 72: a reply of the store is decoded
PayloadDecodeRaw ==
    /\ vPc # "idle"
    /\ vDec = NoProp
    /\ vDec' = FromPayload(vRaw)
    /\ UNCHANGED <<vIn, vRaw, vText, vBack, vPc, buildVars, stateVars>>

-----------------------------------------------------------------------------
(* getMany(pattern, limit, scanSize, chunkSize) *)

\* Array.prototype.slice(from, to) for 0 <= from <= to
Slice(q, from, to) == SubSeq(q, from + 1, Min(to, Len(q)))

\* a chunk one key short
ChunkShort(keys, i, chunkSize) == Slice(keys, i, i + chunkSize - 1)

\* line 197: keys.slice(i, i + chunkSize)
Chunk(keys, i, chunkSize) == Slice(keys, i, i + chunkSize)

\* lines 200-202: result[chunk[j]] = this.fromPayload(values[j] ?? null)
StoreValues(result, chunk, values) ==
    [k \in ScanKeys |->
        IF \E j \in 1..Len(chunk) : chunk[j] = k
        THEN LET j == CHOOSE j \in 1..Len(chunk) :
                         chunk[j] = k /\ \A h \in (j + 1)..Len(chunk) : chunk[h] # k
             IN  FromPayload(IF j <= Len(values) THEN values[j] ELSE NilStr)
        ELSE result[k]]

\* lines 190-196: keys() has returned; an empty array ends the call
ManyKeysDone ==
    /\ gPc = "keys" /\ kPc = "done"
    /\ gI' = 0
    /\ gPc' = IF kOut = <<>> THEN "done" ELSE "mget"
    /\ UNCHANGED <<gChunk, gResult, gCalls, scanVars, lockVars, listVars, dropVars, iterVars, pureVars>>

\* lines 196-203: one mget and the loop over its reply
ManyMget ==
    /\ gPc = "mget"
    /\ LET chunk == Chunk(kOut, gI, gChunk) IN
       /\ gCalls' = Append(gCalls, chunk)
       /\ gResult' = StoreValues(gResult, chunk, MGet(chunk))
    /\ gI' = gI + gChunk
    /\ gPc' = IF gI + gChunk < Len(kOut) THEN "mget" ELSE "done"
    /\ UNCHANGED <<gChunk, scanVars, lockVars, listVars, dropVars, iterVars, pureVars>>

-----------------------------------------------------------------------------
(* dropMany(pattern, size) *)

keysVars == <<kPc, kLimit, kCursor, kAcc, kScans, kOut>>

\* how a call ends
NoOut        == [kind |-> "none",  n |-> 0]
Returned(n)  == [kind |-> "value", n |-> n]
GenericError == [kind |-> "error", n |-> 0]    \* Error('Redis drop many error.')
ConnectionError == [kind |-> "connection", n |-> 0]  \* Error('Redis connection error.')

\* total = keys.length
AddPageLast(total, keys) == Len(keys)

\* line 404: total += keys.length
AddPage(total, keys) == total + Len(keys)

\* a chunk one key short
DropChunkShort(keys, i, size) == Slice(keys, i, i + size - 1)

\* line 407: keys.slice(i, i + size)
DropChunk(keys, i, size) == Slice(keys, i, i + size)

\* an error that carries the count reached so far
DropFailureCount(total) == [kind |-> "error", n |-> total]

\* lines 418-420: the caught error is dropped, the generic one is thrown
DropFailure(total) == GenericError

NoCmd == [op |-> "none", keys |-> <<>>]

\* a client that always sends del
DeleteOpDel(hasUnlink) == "del"

\* lines 409-411: isFunc(redis.unlink) ? unlink(...chunk) : del(...chunk)
DeleteOp(hasUnlink) == IF hasUnlink THEN "unlink" ELSE "del"

\* lines 390-396: the connection check passes; cursor = '0', total = 0
DropCall(size, hasUnlink) ==
    /\ xPc = "idle"
    /\ CheckConnection(cStatus, cStrict)
    /\ xPc' = "scan"
    /\ xSize' = size
    /\ xUnlink' = hasUnlink
    /\ sReply' = 0
    /\ xCursor' = 0
    /\ xTotal' = 0
    /\ xInit' = present
    /\ sSeen' = {}
    /\ stable' = present
    /\ touched' = FALSE
    /\ UNCHANGED <<present, sDup, keysVars, xPage, xI, xOut, xSum, xDeleted, xCmds,
                   xCmd, xSent, lockVars, listVars, manyVars, iterVars, pureVars>>

\* lines 391-393: throw new Error('Redis connection error.')
DropRefused ==
    /\ xPc = "idle"
    /\ ~CheckConnection(cStatus, cStrict)
    /\ xPc' = "refused"
    /\ xOut' = ConnectionError
    /\ UNCHANGED <<scanVars, xSize, xCursor, xTotal, xPage, xI, xInit, xSum, xDeleted,
                   xCmds, xUnlink, xCmd, xSent, lockVars, listVars, manyVars,
                   iterVars, pureVars>>

\* lines 398-405 and 414-416: one scan call; a filled page is counted and its
\* deletion begins, an empty one leads to the loop test
DropScan ==
    /\ xPc = "scan"
    /\ \E next \in NextCursors(xCursor), found \in Pages :
          /\ MayReply(next, found)
          /\ sSeen' = sSeen \cup Items(found)
          /\ xSum' = xSum + Len(found)
          /\ sReply' = next
          /\ xCursor' = CursorAfter(next)
          /\ xPage' = found
          /\ xI' = 0
          /\ IF found # <<>>
             THEN /\ xTotal' = AddPage(xTotal, found)
                  /\ xPc' = "del"
                  /\ UNCHANGED xOut
             ELSE /\ UNCHANGED xTotal
                  /\ IF CursorAfter(next) # 0
                     THEN UNCHANGED <<xPc, xOut>>
                     ELSE xPc' = "done" /\ xOut' = Returned(xTotal)
    /\ xCmds' = xCmds + 1
    /\ xCmd' = [op |-> "scan", keys |-> <<>>]
    /\ xSent' = <<>>
    /\ UNCHANGED <<present, sDup, stable, touched, keysVars, xSize, xInit, xDeleted,
                   xUnlink, lockVars, listVars, manyVars, iterVars, pureVars>>

\* lines 406-416: one unlink (or del) of a chunk of the page, then the loop
\* tests
DropDelete ==
    /\ xPc = "del"
    /\ LET chunk == DropChunk(xPage, xI, xSize) IN
       /\ present' = present \ Items(chunk)
       /\ stable' = stable \ Items(chunk)
       /\ xDeleted' = xDeleted + Cardinality(Items(chunk) \cap present)
       /\ xCmd' = [op |-> DeleteOp(xUnlink), keys |-> chunk]
       /\ xSent' = xSent \o chunk
    /\ xI' = xI + xSize
    /\ xCmds' = xCmds + 1
    /\ IF xI + xSize < Len(xPage)
       THEN UNCHANGED <<xPc, xOut>>
       ELSE IF xCursor # 0
       THEN xPc' = "scan" /\ UNCHANGED xOut
       ELSE xPc' = "done" /\ xOut' = Returned(xTotal)
    /\ UNCHANGED <<sSeen, sDup, sReply, touched, keysVars, xSize, xCursor, xTotal, xPage,
                   xInit, xSum, xUnlink, lockVars, listVars, manyVars, iterVars, pureVars>>

\* line 399 when the scan call rejects
DropScanFails ==
    /\ xPc = "scan"
    /\ xPc' = "threw"
    /\ xOut' = DropFailure(xTotal)
    /\ xCmds' = xCmds + 1
    /\ xCmd' = [op |-> "scan", keys |-> <<>>]
    /\ UNCHANGED <<scanVars, xSize, xCursor, xTotal, xPage, xI, xInit, xSum,
                   xDeleted, xUnlink, xSent, lockVars, listVars, manyVars, iterVars, pureVars>>

\* lines 409-411 when the delete call rejects; the command may or may not
\* have reached the store
DropDeleteFails ==
    /\ xPc = "del"
    /\ LET chunk == DropChunk(xPage, xI, xSize) IN
       \E executed \in BOOLEAN :
          /\ present' = IF executed THEN present \ Items(chunk) ELSE present
          /\ stable' = IF executed THEN stable \ Items(chunk) ELSE stable
          /\ xDeleted' = IF executed
                         THEN xDeleted + Cardinality(Items(chunk) \cap present)
                         ELSE xDeleted
          /\ xCmd' = [op |-> DeleteOp(xUnlink), keys |-> chunk]
          /\ xSent' = xSent \o chunk
    /\ xPc' = "threw"
    /\ xOut' = DropFailure(xTotal)
    /\ xCmds' = xCmds + 1
    /\ UNCHANGED <<sSeen, sDup, sReply, touched, keysVars, xSize, xCursor, xTotal, xPage,
                   xI, xInit, xSum, xUnlink, lockVars, listVars, manyVars, iterVars, pureVars>>

-----------------------------------------------------------------------------
(* toPatternString(...parts) and toKeyString(...parts) *)

\* the characters of a segment: an ordinary one, the separator, a blank and
\* three of the glob characters
Alphabet == {"a", ":", " ", "*", "?", "["}
WhiteChars == {" "}                     \* the class \s
GlobChars == {"*", "?", "[", "]"}       \* the class [\*\?\[\]]

Segments == UNION {[1..n -> Alphabet] : n \in 0..MaxSegLen}

\* the number of arguments of a call
PartCounts == {1, 2}

RECURSIVE TrimLeft(_)
TrimLeft(q) == IF q # <<>> /\ Head(q) \in WhiteChars THEN TrimLeft(Tail(q)) ELSE q

RECURSIVE TrimRight(_)
TrimRight(q) ==
    IF q # <<>> /\ q[Len(q)] \in WhiteChars
    THEN TrimRight(SubSeq(q, 1, Len(q) - 1)) ELSE q

\* strTrim(p): the string without its leading and trailing whitespace
StrTrim(q) == TrimRight(TrimLeft(q))

HasChar(q, C) == \E i \in 1..Len(q) : q[i] \in C

\* parts.join(':')
RECURSIVE Join(_)
Join(parts) ==
    IF parts = <<>> THEN <<>>
    ELSE IF Len(parts) = 1 THEN parts[1]
    ELSE parts[1] \o <<":">> \o Join(Tail(parts))

\* lines 49 and 60: the test is made on the trimmed segment s
BadSegment(p, banned) ==
    LET t == StrTrim(p)
    IN  t = <<>> \/ HasChar(t, {":"}) \/ HasChar(t, banned)

\* lines 46-66: throw at the first bad segment, else join the parts as given
BuildString(parts, banned) ==
    IF \E i \in 1..Len(parts) : BadSegment(parts[i], banned)
    THEN [threw |-> TRUE, s |-> <<>>]
    ELSE [threw |-> FALSE, s |-> Join(parts)]

\* lines 46-55
ToPatternString ==
    /\ bOp = "none"
    /\ bOp' = "pattern"
    /\ bOut' = BuildString(bParts, WhiteChars)
    /\ UNCHANGED <<bParts, payloadVars, stateVars>>

\* lines 57-66
ToKeyString ==
    /\ bOp = "none"
    /\ bOp' = "key"
    /\ bOut' = BuildString(bParts, GlobChars \cup WhiteChars)
    /\ UNCHANGED <<bParts, payloadVars, stateVars>>

-----------------------------------------------------------------------------
(* lock(key, opts): the backoff wait *)

\* an option of opts: left out, or an integer
NoOpt  == [def |-> FALSE, n |-> 0]
Opt(n) == [def |-> TRUE, n |-> n]

MaxDelayOpt == 62

DelayOpts == {NoOpt} \cup {Opt(n) : n \in (0 - 1)..MaxDelayOpt}

\* Math.random() returns q / RandDen for some q in 0..RandDen-1, a number
\* in [0, 1)
RandDen == 4

\* line 429: Math.max(5, opts?.minDelayMs ?? 20)
MinDelay(optMin) == Max(5, IF optMin.def THEN optMin.n ELSE 20)

\* line 430: Math.max(minDelay, opts?.maxDelayMs ?? 60)
MaxDelay(minDelay, optMax) == Max(minDelay, IF optMax.def THEN optMax.n ELSE 60)

\* Math.floor(Math.random() * (maxDelay - minDelay + 2))
BackoffDelayOver(minDelay, maxDelay, q) ==
    minDelay + ((q * (maxDelay - minDelay + 2)) \div RandDen)

\* line 449: minDelay + Math.floor(Math.random() * (maxDelay - minDelay + 1))
BackoffDelay(minDelay, maxDelay, q) ==
    minDelay + ((q * (maxDelay - minDelay + 1)) \div RandDen)

\* lines 429-430
BackoffRange ==
    /\ wPc = "opts"
    /\ wPc' = "range"
    /\ wMinDelay' = MinDelay(wOptMin)
    /\ wMaxDelay' = MaxDelay(MinDelay(wOptMin), wOptMax)
    /\ UNCHANGED <<wOptMin, wOptMax, wDelay, buildVars, payloadVars, connVars,
                   incrVars, lockVars, listVars, scanVars, manyVars, dropVars, iterVars>>

\* lines 448-450: one wait
BackoffWait ==
    /\ wPc = "range"
    /\ wPc' = "waited"
    /\ \E q \in 0..(RandDen - 1) : wDelay' = BackoffDelay(wMinDelay, wMaxDelay, q)
    /\ UNCHANGED <<wOptMin, wOptMax, wMinDelay, wMaxDelay, buildVars, payloadVars,
                   connVars, incrVars, lockVars, listVars, scanVars, manyVars, dropVars, iterVars>>

-----------------------------------------------------------------------------
(* incr(key, ttl) *)

MaxCounter == 3      \* largest value the counter reaches

\* two callers of incr() on the same key
IncrCallers == {1, 2}

\* the ttl argument: left out, or an integer
TtlArgs == {NoOpt} \cup {Opt(n) : n \in 0..MaxTtl}

\* isNumP(ttl): a number greater than zero
IsNumP(o) == o.def /\ o.n > 0

\* what another client reads with GET and PTTL
CounterView(mid) == [val |-> nVal, ttl |-> nTtl, mid |-> mid]

\* an increment that sets the time to live in the same command
TtlWithIncr(old, ttl) == IF IsNumP(ttl) THEN ttl.n ELSE old

\* INCR key: the time to live of the key is left as it is
TtlAfterIncr(old, ttl) == old

\* PEXPIRE key ttl: no effect when the key is absent
Pexpire(val, old, ttl) == IF val > 0 THEN ttl ELSE old

IncrOthers == <<buildVars, payloadVars, backoffVars, connVars, lockVars, listVars,
                scanVars, manyVars, dropVars, iterVars>>

\* line 460: INCR replies with the new value; lines 462 and 465
IncrCall(c, ttl) ==
    /\ nPc[c] \in {"idle", "done"}
    /\ nVal < MaxCounter
    /\ nVal' = nVal + 1
    /\ nTtl' = TtlAfterIncr(nTtl, ttl)
    /\ nArg' = [nArg EXCEPT ![c] = ttl]
    /\ nRes' = [nRes EXCEPT ![c] = nVal + 1]
    /\ nApplied' = [nApplied EXCEPT ![c] = FALSE]
    /\ nPc' = [nPc EXCEPT ![c] = IF IsNumP(ttl) THEN "expire" ELSE "done"]
    /\ UNCHANGED <<nObs, IncrOthers>>

\* line 460: the INCR command is rejected and incr() throws
IncrCallThrows(c, ttl) ==
    /\ nPc[c] \in {"idle", "done"}
    /\ nArg' = [nArg EXCEPT ![c] = ttl]
    /\ nRes' = [nRes EXCEPT ![c] = 0]
    /\ nApplied' = [nApplied EXCEPT ![c] = FALSE]
    /\ nPc' = [nPc EXCEPT ![c] = "rejected"]
    /\ UNCHANGED <<nVal, nTtl, nObs, IncrOthers>>

\* lines 463 and 465: PEXPIRE key ttl, then return result
IncrExpire(c) ==
    /\ nPc[c] = "expire"
    /\ nTtl' = Pexpire(nVal, nTtl, nArg[c].n)
    /\ nApplied' = [nApplied EXCEPT ![c] = TRUE]
    /\ nPc' = [nPc EXCEPT ![c] = "done"]
    /\ UNCHANGED <<nVal, nArg, nRes, nObs, IncrOthers>>

\* line 463: the PEXPIRE call rejects and incr() throws; the command was
\* not executed, or it was and its reply was lost
IncrExpireThrows(c) ==
    /\ nPc[c] = "expire"
    /\ \E applied \in BOOLEAN :
          /\ nApplied' = [nApplied EXCEPT ![c] = applied]
          /\ nTtl' = IF applied THEN Pexpire(nVal, nTtl, nArg[c].n) ELSE nTtl
    /\ nPc' = [nPc EXCEPT ![c] = "threw"]
    /\ UNCHANGED <<nVal, nArg, nRes, nObs, IncrOthers>>

\* the caller's process stops between line 460 and line 463
IncrStop(c) ==
    /\ nPc[c] = "expire"
    /\ nPc' = [nPc EXCEPT ![c] = "stopped"]
    /\ UNCHANGED <<nVal, nTtl, nArg, nRes, nApplied, nObs, IncrOthers>>

\* the store drops the key when its time to live has run out
CounterExpires ==
    /\ nVal > 0
    /\ nTtl > 0
    /\ nVal' = 0
    /\ nTtl' = 0
    /\ UNCHANGED <<nPc, nArg, nRes, nApplied, nObs, IncrOthers>>

\* another client reads the counter and its time to live
CounterRead ==
    /\ nObs' = CounterView(\E c \in IncrCallers : nPc[c] = "expire")
    /\ nObs' # nObs
    /\ UNCHANGED <<nVal, nTtl, nPc, nArg, nRes, nApplied, IncrOthers>>

-----------------------------------------------------------------------------
(* Specifications *)

LockIdle ==
    /\ kv = [k \in StoreKeys |-> NoEntry]
    /\ pc = [c \in Callers |-> "idle"]
    /\ token = [c \in Callers |-> 0]
    /\ attempt = [c \in Callers |-> 0]
    /\ retries = [c \in Callers |-> 0]
    /\ ttlMs = [c \in Callers |-> 0]
    /\ lockRes = [c \in Callers |-> "none"]
    /\ unlockRet = [c \in Callers |-> <<>>]
    /\ rawRet = [c \in Callers |-> "none"]
    /\ acq = 0
    /\ removed = FALSE

ListIdle(n) ==
    /\ list = [i \in 1..n |-> i]
    /\ lAll = [i \in 1..n |-> i]
    /\ dPc = [d \in Drainers |-> "idle"]
    /\ dKind = [d \in Drainers |-> "none"]
    /\ dCount = [d \in Drainers |-> 0]
    /\ dRet = [d \in Drainers |-> <<>>]

ScanIdle(keys) ==
    /\ present = keys
    /\ sSeen = {}
    /\ sDup = FALSE
    /\ sReply = 0
    /\ stable = {}
    /\ touched = FALSE
    /\ kPc = "idle"
    /\ kLimit = 0
    /\ kCursor = 0
    /\ kAcc = <<>>
    /\ kScans = 0
    /\ kOut = <<>>

ManyIdle(pcv, chunkSize) ==
    /\ gPc = pcv
    /\ gChunk = chunkSize
    /\ gI = 0
    /\ gResult = [k \in ScanKeys |-> NoProp]
    /\ gCalls = <<>>

DropIdle ==
    /\ xPc = "idle"
    /\ xSize = 0
    /\ xCursor = 0
    /\ xTotal = 0
    /\ xPage = <<>>
    /\ xI = 0
    /\ xOut = NoOut
    /\ xInit = {}
    /\ xSum = 0
    /\ xDeleted = 0
    /\ xCmds = 0
    /\ xUnlink = FALSE
    /\ xCmd = NoCmd
    /\ xSent = <<>>

IterIdle(h) ==
    /\ iPc = [r \in Readers |-> "idle"]
    /\ iRemove = [r \in Readers |-> FALSE]
    /\ iLimit = [r \in Readers |-> 0]
    /\ iKind = [r \in Readers |-> "none"]
    /\ iN = [r \in Readers |-> 0]
    /\ iStart = [r \in Readers |-> 0]
    /\ iOut = [r \in Readers |-> <<>>]
    /\ iBatches = [r \in Readers |-> 0]
    /\ iSnap = [r \in Readers |-> <<>>]
    /\ iStay = [r \in Readers |-> {}]
    /\ iTouched = [r \in Readers |-> FALSE]
    /\ hist = h

BuildIdle(parts) ==
    /\ bParts = parts
    /\ bOp = "none"
    /\ bOut = [threw |-> FALSE, s |-> <<>>]

PayloadIdle(pcv, value, raw) ==
    /\ vPc = pcv
    /\ vIn = value
    /\ vRaw = raw
    /\ vText = ""
    /\ vBack = NoProp
    /\ vDec = NoProp

BackoffIdle(pcv, optMin, optMax) ==
    /\ wPc = pcv
    /\ wOptMin = optMin
    /\ wOptMax = optMax
    /\ wMinDelay = 0
    /\ wMaxDelay = 0
    /\ wDelay = 0

\* the client is connected
ConnIdle(status, strict) == cStatus = status /\ cStrict = strict

\* the counter key is absent, no incr() call is under way, nothing was read
IncrIdle ==
    /\ nVal = 0
    /\ nTtl = 0
    /\ nPc = [c \in IncrCallers |-> "idle"]
    /\ nArg = [c \in IncrCallers |-> NoOpt]
    /\ nRes = [c \in IncrCallers |-> 0]
    /\ nApplied = [c \in IncrCallers |-> FALSE]
    /\ nObs = [val |-> 0, ttl |-> 0, mid |-> FALSE]

PureIdle ==
    /\ BuildIdle(<<>>)
    /\ PayloadIdle("idle", JNull, NilStr)
    /\ BackoffIdle("idle", NoOpt, NoOpt)
    /\ ConnIdle("ready", FALSE)
    /\ IncrIdle

RestIdle == ManyIdle("idle", 0) /\ DropIdle /\ IterIdle(TRUE) /\ PureIdle

InitLock == LockIdle /\ ListIdle(0) /\ ScanIdle({}) /\ RestIdle

NextLock ==
    \/ \E c \in Callers, r \in -1..MaxRetries, t \in 1..MaxTtl : LockCall(c, r, t)
    \/ \E c \in Callers : LockAttempt(c)
    \/ \E c \in Callers : LockAttemptThrows(c)
    \/ \E c \in Callers : LockWake(c)
    \/ \E c \in Callers : Unlock(c)
    \/ \E k \in StoreKeys : Expire(k)

SpecLock == InitLock /\ [][NextLock]_vars

\* the same on a store that answers, where caller 1, while it holds the lock,
\* may also call unlock with the raw key
RawCallers == {1}

NextLockKeys ==
    \/ \E c \in Callers, r \in 1..MaxRetries, t \in 1..MaxTtl : LockCall(c, r, t)
    \/ \E c \in Callers : LockAttempt(c)
    \/ \E c \in Callers : LockWake(c)
    \/ \E c \in Callers : Unlock(c)
    \/ \E c \in RawCallers : UnlockRaw(c)
    \/ \E k \in StoreKeys : Expire(k)

SpecLockKeys == InitLock /\ [][NextLockKeys]_vars

\* the list holds the items 1..n, n drawn from 0..MaxItems
InitList == LockIdle /\ ScanIdle({}) /\ RestIdle /\ \E n \in 0..MaxItems : ListIdle(n)

NextList ==
    \/ \E d \in Drainers, k \in LpopKinds, n \in 1..MaxCount : DrainCall(d, k, n)
    \/ \E d \in Drainers : DrainNative(d)
    \/ \E d \in Drainers : DrainFallback(d)
    \/ Push

SpecList == InitList /\ [][NextList]_vars

\* the same with store calls that fail, a native pop whose reply is lost, and
\* any count from 0
NextListFaults ==
    \/ \E d \in Drainers, k \in FaultyKinds, n \in 0..MaxCount : DrainCall(d, k, n)
    \/ \E d \in Drainers : DrainNative(d)
    \/ \E d \in Drainers : DrainFallback(d)
    \/ \E d \in Drainers : DrainFallbackThrows(d)
    \/ Push

SpecListFaults == InitList /\ [][NextListFaults]_vars

\* any set of matching keys exists at the start
InitScan ==
    LockIdle /\ ListIdle(0) /\ RestIdle /\ \E keys \in SUBSET ScanKeys : ScanIdle(keys)

NextScan ==
    \/ \E limit \in 1..MaxLimit : KeysCall(limit)
    \/ KeysScan
    \/ \E k \in ScanKeys : CreateKey(k)
    \/ \E k \in ScanKeys : DeleteKey(k)

SpecScan == InitScan /\ [][NextScan]_vars

\* getMany has been called with a valid chunkSize (lines 187-189) and is about
\* to call keys(); any set of matching keys exists, and other clients delete
\* keys and create key 1 while the call runs
InitMany ==
    /\ LockIdle /\ ListIdle(0)
    /\ \E keys \in SUBSET ScanKeys : ScanIdle(keys)
    /\ \E chunkSize \in 1..MaxChunk : ManyIdle("keys", chunkSize)
    /\ DropIdle /\ IterIdle(TRUE) /\ PureIdle

NextMany ==
    \/ \E limit \in 1..MaxLimit : KeysCall(limit)
    \/ KeysScan
    \/ ManyKeysDone
    \/ ManyMget
    \/ \E k \in WrittenKeys : CreateKey(k)
    \/ \E k \in ScanKeys : DeleteKey(k)

SpecMany == InitMany /\ [][NextMany]_vars

\* any set of matching keys exists when dropMany is called; while it runs,
\* other clients delete and create key 1 any number of times
InitDrop == InitScan

DropRunning == xPc \in {"scan", "del"}

NextDrop ==
    \/ \E size \in 1..MaxSize, u \in BOOLEAN : DropCall(size, u)
    \/ DropScan
    \/ DropDelete
    \/ DropScanFails
    \/ DropDeleteFails
    \/ \E k \in WrittenKeys : DropRunning /\ CreateKey(k)
    \/ \E k \in WrittenKeys : DropRunning /\ DeleteKey(k)

SpecDrop == InitDrop /\ [][NextDrop]_vars

\* one call of keys or of dropMany on a store that answers every command;
\* other clients delete and create key 1 while the call runs.  A step of the
\* call is a store command answered, so a call that can step does step.
NextTraverse ==
    \/ \E limit \in 1..MaxLimit : xPc = "idle" /\ KeysCall(limit)
    \/ KeysScan
    \/ \E size \in 1..MaxSize, u \in BOOLEAN : kPc = "idle" /\ DropCall(size, u)
    \/ DropScan
    \/ DropDelete
    \/ \E k \in WrittenKeys : Traversing /\ CreateKey(k)
    \/ \E k \in WrittenKeys : Traversing /\ DeleteKey(k)

FairSpecTraverse ==
    /\ InitScan
    /\ [][NextTraverse]_vars
    /\ WF_vars(KeysScan)
    /\ WF_vars(DropScan \/ DropDelete)

\* the list holds the items 1..n when reader 1 calls getList; other clients
\* push, pop and trim while the traversal runs
InitPager == InitList

PagerReaders == {1}

ReaderStep(r) ==
    \/ \E k \in LpopKinds, n \in 1..MaxLimit, rm \in BOOLEAN : IterCall(r, k, n, rm)
    \/ IterNative(r)
    \/ IterFallback(r)
    \/ IterLlen(r)
    \/ IterRange(r)

NextPager ==
    \/ \E r \in PagerReaders : ReaderStep(r)
    \/ OtherPush
    \/ OtherHeadPush
    \/ OtherPop
    \/ OtherTrim

SpecPager == InitPager /\ [][NextPager]_vars

\* the list holds the items 1..n; both readers run a destructive getList on
\* it, each with its own client and limit, and no client pushes
NextDrainTwo ==
    \/ \E r \in Readers, k \in LpopKinds, n \in 1..MaxLimit : IterCall(r, k, n, TRUE)
    \/ \E r \in Readers : IterNative(r)
    \/ \E r \in Readers : IterFallback(r)

SpecDrainTwo == InitPager /\ [][NextDrainTwo]_vars

\* one call of toKeyString or toPatternString with one or two segments
InitBuild ==
    /\ LockIdle /\ ListIdle(0) /\ ScanIdle({})
    /\ ManyIdle("idle", 0) /\ DropIdle /\ IterIdle(TRUE)
    /\ \E n \in PartCounts : \E parts \in [1..n -> Segments] : BuildIdle(parts)
    /\ PayloadIdle("idle", JNull, NilStr)
    /\ BackoffIdle("idle", NoOpt, NoOpt)
    /\ ConnIdle("ready", FALSE)
    /\ IncrIdle

NextBuild == ToPatternString \/ ToKeyString

SpecBuild == InitBuild /\ [][NextBuild]_vars

\* one value to write and read back, and one stored string to decode
InitPayload ==
    /\ LockIdle /\ ListIdle(0) /\ ScanIdle({})
    /\ ManyIdle("idle", 0) /\ DropIdle /\ IterIdle(TRUE) /\ BuildIdle(<<>>)
    /\ \E value \in JsonValues, raw \in RawPayloads : PayloadIdle("in", value, raw)
    /\ BackoffIdle("idle", NoOpt, NoOpt)
    /\ ConnIdle("ready", FALSE)
    /\ IncrIdle

NextPayload == PayloadEncode \/ PayloadDecodeBack \/ PayloadDecodeRaw

SpecPayload == InitPayload /\ [][NextPayload]_vars

\* one lock call about to wait, with any minDelayMs and maxDelayMs
InitBackoff ==
    /\ LockIdle /\ ListIdle(0) /\ ScanIdle({})
    /\ ManyIdle("idle", 0) /\ DropIdle /\ IterIdle(TRUE)
    /\ BuildIdle(<<>>) /\ PayloadIdle("idle", JNull, NilStr)
    /\ \E optMin, optMax \in DelayOpts : BackoffIdle("opts", optMin, optMax)
    /\ ConnIdle("ready", FALSE)
    /\ IncrIdle

NextBackoff == BackoffRange \/ BackoffWait

SpecBackoff == InitBackoff /\ [][NextBackoff]_vars

\* the callers increment one counter, with or without a ttl; the store may
\* drop the key when it has a time to live, and another client reads it
InitIncr == InitLock

NextIncr ==
    \/ \E c \in IncrCallers, ttl \in TtlArgs : IncrCall(c, ttl)
    \/ \E c \in IncrCallers, ttl \in TtlArgs : IncrCallThrows(c, ttl)
    \/ \E c \in IncrCallers : IncrExpire(c)
    \/ \E c \in IncrCallers : IncrExpireThrows(c)
    \/ \E c \in IncrCallers : IncrStop(c)
    \/ CounterExpires
    \/ CounterRead

SpecIncr == InitIncr /\ [][NextIncr]_vars

\* the client is in any status, strict mode is on or off; some keys match the
\* pattern, the list holds n items, and keys (on its own or for getMany),
\* dropMany, getList and lock are called with valid arguments
InitGuard ==
    /\ LockIdle
    /\ \E n \in 0..MaxItems : ListIdle(n)
    /\ \E keys \in SUBSET ScanKeys : ScanIdle(keys)
    /\ \E g \in {"idle", "keys"} : ManyIdle(g, 1)
    /\ DropIdle /\ IterIdle(TRUE)
    /\ BuildIdle(<<>>) /\ PayloadIdle("idle", JNull, NilStr)
    /\ BackoffIdle("idle", NoOpt, NoOpt)
    /\ \E status \in Statuses, strict \in BOOLEAN : ConnIdle(status, strict)
    /\ IncrIdle

\* no call has been made yet
NoCallYet ==
    /\ kPc = "idle" /\ xPc = "idle"
    /\ \A r \in Readers : iPc[r] = "idle"
    /\ \A c \in Callers : pc[c] = "idle"

\* one call is made
NextGuard ==
    \/ \E limit \in 1..MaxLimit : NoCallYet /\ KeysCall(limit)
    \/ NoCallYet /\ KeysRefused
    \/ \E size \in 1..MaxSize, u \in BOOLEAN : NoCallYet /\ DropCall(size, u)
    \/ NoCallYet /\ DropRefused
    \/ \E r \in PagerReaders, k \in LpopKinds, n \in 1..MaxLimit, rm \in BOOLEAN :
          NoCallYet /\ IterCall(r, k, n, rm)
    \/ \E r \in PagerReaders : NoCallYet /\ IterRefused(r)
    \/ \E c \in Callers, r \in 1..MaxRetries, t \in 1..MaxTtl :
          NoCallYet /\ LockCall(c, r, t)
    \/ \E c \in Callers : NoCallYet /\ LockRefused(c)

SpecGuard == InitGuard /\ [][NextGuard]_vars

\* the same, for traversals that need not end: the list holds n items, the
\* histories are not kept, and clients may push for ever while the list holds
\* fewer than MaxItems items.  A reader's step is a store command issued or
\* answered, so a reader that can step does step.
InitPagerLive ==
    /\ LockIdle /\ ScanIdle({}) /\ ManyIdle("idle", 0) /\ DropIdle /\ IterIdle(FALSE)
    /\ PureIdle
    /\ \E n \in 0..MaxItems : list = [i \in 1..n |-> 0]
    /\ lAll = <<>>
    /\ dPc = [d \in Drainers |-> "idle"]
    /\ dKind = [d \in Drainers |-> "none"]
    /\ dCount = [d \in Drainers |-> 0]
    /\ dRet = [d \in Drainers |-> <<>>]

FairSpecPager ==
    InitPagerLive /\ [][NextPager]_vars /\ \A r \in PagerReaders : WF_vars(ReaderStep(r))

-----------------------------------------------------------------------------
(* Claims about lock() and unlock(), checked under SpecLock *)

Finished(c) == pc[c] \in {"held", "released", "done", "null", "threw"}

UnlockStep(c) == Len(unlockRet'[c]) = Len(unlockRet[c]) + 1

UnlockReturned(c) == unlockRet'[c][Len(unlockRet'[c])]

AttemptStep(c) == pc[c] = "set" /\ pc'[c] \in {"held", "wait", "null"}

\* C1: between two consecutive removals of the lock entry (expiry or matching
\* unlock) at most one lock call returns a DistLock, and until the next removal
\* the stored entry is that call's; and when every caller has returned, some
\* call made an attempt, no store call failed and no entry was removed
\* meanwhile, exactly one call returned a DistLock.
C1_MutualExclusion ==
    /\ acq <= 1
    /\ acq = 1 => \E c \in Callers :
                     /\ lockRes[c] = "lock"
                     /\ kv[LockKey] = [tok |-> token[c], ttl |-> ttlMs[c]]
    /\ ( /\ ~removed
         /\ \A c \in Callers : Finished(c) /\ lockRes[c] # "error"
         /\ \E c \in Callers : retries[c] >= 1 )
       => Cardinality({c \in Callers : lockRes[c] = "lock"}) = 1

\* two callers with retries = 1 have both returned while the entry never lapsed:
\* one holds the lock, the other got null
C1_Witness ==
    /\ ~removed
    /\ \E a, b \in Callers :
          /\ a # b
          /\ retries[a] = 1 /\ retries[b] = 1
          /\ lockRes[a] = "lock" /\ lockRes[b] = "null" /\ attempt[b] = 1
          /\ kv[LockKey].tok = token[a]

\* C2: an unlock whose token differs from the value stored when the script
\* runs returns false and leaves the store (token and expiry of the current
\* holder) as it is; an unlock step removes an entry only when the stored
\* token is the caller's own.
C2_ReleaseSafety ==
    [][\A c \in Callers :
          UnlockStep(c) =>
             /\ (kv[LockKey].tok # token[c]) => (kv' = kv /\ ~UnlockReturned(c))
             /\ (kv' # kv) => (kv[LockKey].tok = token[c])]_vars

\* holder a acquired, its entry lapsed, b re-acquired, a's unlock returned false
\* and b's entry is still stored
C2_Witness ==
    \E a, b \in Callers :
       /\ a # b
       /\ lockRes[a] = "lock" /\ unlockRet[a] = <<FALSE>>
       /\ lockRes[b] = "lock" /\ unlockRet[b] = <<>>
       /\ kv[LockKey] = [tok |-> token[b], ttl |-> ttlMs[b]]

\* C3: unlock returns true exactly when the stored value equalled the token
\* and this call deleted the entry; otherwise it returns false and the store
\* is unchanged; an unlock after a successful one returns false.
C3_UnlockResult ==
    [][\A c \in Callers :
          UnlockStep(c) =>
             /\ UnlockReturned(c) <=>
                   ( /\ kv[LockKey] # NoEntry
                     /\ kv[LockKey].tok = token[c]
                     /\ kv'[LockKey] = NoEntry )
             /\ ~UnlockReturned(c) => kv' = kv
             /\ (unlockRet[c] = <<TRUE>>) => ~UnlockReturned(c)]_vars

\* a caller released its lock and a second unlock with the same token returned false
C3_Witness == \E c \in Callers : unlockRet[c] = <<TRUE, FALSE>>

\* C4: a rejected conditional set leaves the store unchanged and happens only
\* while the key is held under another token; a call whose attempts were all
\* rejected has made `retries` attempts and returns null, not an error.
C4_ExhaustedReturnsNull ==
    [][\A c \in Callers :
          /\ (AttemptStep(c) /\ pc'[c] # "held") =>
                /\ kv' = kv
                /\ kv[LockKey] # NoEntry
                /\ kv[LockKey].tok # token[c]
          /\ (AttemptStep(c) /\ pc'[c] = "null") =>
                /\ lockRes'[c] = "null"
                /\ attempt'[c] = retries[c]]_vars

\* a call with two attempts returned null while another caller's entry is stored
C4_Witness ==
    \E a, b \in Callers :
       /\ a # b
       /\ lockRes[b] = "null" /\ retries[b] = 2 /\ attempt[b] = 2
       /\ kv[LockKey] = [tok |-> token[a], ttl |-> ttlMs[a]]

\* C5: a conditional-set attempt made while no entry is stored (never set, or
\* removed by expiry or by a matching unlock) succeeds, and an attempt succeeds
\* only then: a waiter obtains the lock at its first attempt after the lapse
\* and not before.
C5_AvailableAfterLapse ==
    [][\A c \in Callers :
          AttemptStep(c) => ((kv[LockKey] = NoEntry) <=> (lockRes'[c] = "lock"))]_vars

\* a waiter that was rejected once obtained the lock after the holder's entry
\* was removed
C5_Witness ==
    \E a, b \in Callers :
       /\ a # b
       /\ lockRes[a] = "lock" /\ removed
       /\ lockRes[b] = "lock" /\ attempt[b] >= 1
       /\ kv[LockKey].tok = token[b]

\* C28: a lock call issues at most `retries` conditional sets; a rejected
\* attempt is followed by one wait and then the next attempt when attempts are
\* left, and by the return of null when it was the last; a call that has
\* succeeded or returned neither waits nor attempts again.
C28_AttemptsAndWaits ==
    /\ [](\A c \in Callers :
             /\ attempt[c] <= retries[c]
             /\ pc[c] \in {"set", "wait", "held", "released", "done", "threw"} =>
                   attempt[c] + 1 <= retries[c]
             /\ pc[c] = "wait" => attempt[c] >= 1
             /\ pc[c] = "null" => attempt[c] = retries[c])
    /\ [][\A c \in Callers :
             /\ (pc[c] = "set" /\ attempt'[c] # attempt[c]) =>
                   /\ attempt'[c] = attempt[c] + 1
                   /\ pc'[c] = IF attempt'[c] < retries[c] THEN "wait" ELSE "null"
             /\ (pc[c] = "set" /\ attempt'[c] = attempt[c]) =>
                   pc'[c] \in {"set", "held", "threw"}
             /\ (pc[c] = "wait") =>
                   (pc'[c] \in {"wait", "set"} /\ attempt'[c] = attempt[c])
             /\ Finished(c) =>
                   (pc'[c] \notin {"set", "wait"} /\ attempt'[c] = attempt[c])]_vars

\* a call with two attempts waits after its first rejection while a call with
\* one attempt has returned null without waiting
C28_Witness ==
    \E a, b \in Callers :
       /\ a # b
       /\ pc[a] = "wait" /\ retries[a] = 2 /\ attempt[a] = 1
       /\ pc[b] = "null" /\ retries[b] = 1 /\ attempt[b] = 1

\* C33: when the store rejects a conditional set, the lock call ends at once
\* with that error: its result is the error and never null, and it makes no
\* further attempt and waits no more.
C33_ErrorSurfaces ==
    /\ [](\A c \in Callers :
             /\ lockRes[c] = "error" <=> pc[c] = "threw"
             /\ pc[c] = "threw" =>
                   ~ENABLED (LockAttempt(c) \/ LockAttemptThrows(c) \/ LockWake(c)))
    /\ [][\A c \in Callers :
             /\ (pc[c] = "set" /\ pc'[c] = "null") =>
                   (kv' = kv /\ kv[LockKey] # NoEntry /\ attempt'[c] = retries[c])
             /\ (pc[c] = "threw") =>
                   (pc'[c] = "threw" /\ lockRes'[c] = "error" /\ attempt'[c] = attempt[c])]_vars

\* the second attempt of a call with two attempts was rejected by the store
\* while another caller held the lock
C33_Witness ==
    \E a, b \in Callers :
       /\ a # b
       /\ pc[a] = "held" /\ kv[LockKey].tok = token[a]
       /\ pc[b] = "threw" /\ lockRes[b] = "error" /\ retries[b] = 2 /\ attempt[b] = 1

\* the only call made so far is c's, and no entry is or was stored
Alone(c) ==
    /\ kv[LockKey] = NoEntry /\ ~removed
    /\ \A o \in Callers \ {c} : pc[o] = "idle"

\* C37 as stated: a lock call on a free key without competitors never returns
\* null, whatever opts.retries is.
C37_AlwaysAttempts ==
    \A c \in Callers : Alone(c) => pc[c] # "null"

\* C37: a lock call makes its first attempt exactly when opts.retries is at
\* least 1; it then obtains the lock if the key is free and the store answers.
\* With opts.retries = 0 or below it makes no attempt and returns null, free
\* key or not.
C37_AttemptsIfPositive ==
    /\ [](\A c \in Callers :
             /\ retries[c] >= 0
             /\ (pc[c] = "null" /\ attempt[c] = 0) <=> (pc[c] # "idle" /\ retries[c] = 0))
    /\ [][\A c \in Callers :
             /\ (pc[c] = "idle" /\ pc'[c] # "idle") =>
                   pc'[c] = IF retries'[c] >= 1 THEN "set" ELSE "null"
             /\ (Alone(c) /\ AttemptStep(c)) =>
                   (pc'[c] = "held" /\ lockRes'[c] = "lock" /\ attempt'[c] = 0)]_vars

\* a call with opts.retries <= 0 returned null from a free key it never tried
C37_Witness ==
    \E c \in Callers :
       Alone(c) /\ pc[c] = "null" /\ lockRes[c] = "null" /\ retries[c] = 0 /\ attempt[c] = 0

\* C38: lock(k) writes under 'lock:' + k only, and the entry a successful
\* attempt leaves there is the caller's; unlock with the raw key k and the
\* record's token returns false and changes nothing, while the record's
\* unlock(), which sends the derived key, removes the entry it still owns.
C38_DerivedKeyOnly ==
    /\ [](kv[RawKey] = NoEntry)
    /\ [](\A c \in Callers : rawRet[c] # "true")
    /\ [][\A c \in Callers :
             /\ (AttemptStep(c) /\ pc'[c] = "held") =>
                   kv'[LockKey] = [tok |-> token[c], ttl |-> ttlMs[c]]
             /\ (rawRet'[c] # rawRet[c]) => (rawRet'[c] = "false" /\ kv' = kv)
             /\ (UnlockStep(c) /\ kv[LockKey] # NoEntry /\ kv[LockKey].tok = token[c]) =>
                   (UnlockReturned(c) /\ kv'[LockKey] = NoEntry)]_vars

\* the holder's unlock(k, token) returned false and left its entry in place;
\* its unlock() then released it
C38_Witness ==
    \E c \in Callers :
       /\ rawRet[c] = "false" /\ unlockRet[c] = <<TRUE>>
       /\ kv[LockKey] = NoEntry /\ ~(\E o \in Callers \ {c} : pc[o] # "idle")

\* C30: a lock call draws one token and keeps it for all its attempts; the
\* entry a successful attempt stores carries that token, unlock() sends the
\* same token, and the tokens of different calls differ: an unlock never
\* removes an entry that holds another call's token, and it removes the entry
\* whenever the entry holds its own.
C30_OwnToken ==
    /\ [](\A a, b \in Callers :
             (a # b /\ pc[a] # "idle" /\ pc[b] # "idle") => token[a] # token[b])
    /\ [][\A c \in Callers :
             /\ pc[c] # "idle" => token'[c] = token[c]
             /\ (AttemptStep(c) /\ pc'[c] = "held") =>
                   kv'[LockKey] = [tok |-> token[c], ttl |-> ttlMs[c]]
             /\ UnlockStep(c) =>
                   /\ (kv[LockKey] # NoEntry /\ kv[LockKey].tok = token[c]) =>
                         kv'[LockKey] = NoEntry
                   /\ \A o \in Callers \ {c} :
                         (kv[LockKey] # NoEntry /\ kv[LockKey].tok = token[o]) => kv' = kv]_vars

\* a released its lock with its own token; b, rejected once before, then
\* acquired with a different token, which is the one stored
C30_Witness ==
    \E a, b \in Callers :
       /\ a # b /\ token[a] # token[b]
       /\ lockRes[a] = "lock" /\ unlockRet[a] = <<TRUE>>
       /\ pc[b] = "held" /\ attempt[b] = 1
       /\ kv[LockKey].tok = token[b]

-----------------------------------------------------------------------------
(* Claims about the backoff wait of lock(), checked under SpecBackoff *)

\* C29: every backoff wait is an integer d with minDelay <= d <= maxDelay,
\* where minDelay = max(5, minDelayMs or 20) and maxDelay = max(minDelay,
\* maxDelayMs or 60); d is at least 5, and d = minDelay when maxDelayMs is
\* below minDelayMs.
C29_BackoffBounds ==
    wPc = "waited" =>
       LET lo == IF wOptMin.def THEN (IF wOptMin.n > 5 THEN wOptMin.n ELSE 5) ELSE 20
           top == IF wOptMax.def THEN wOptMax.n ELSE 60
           hi == IF top > lo THEN top ELSE lo
       IN  /\ wDelay \in lo..hi
           /\ wDelay >= 5
           /\ (wOptMin.def /\ wOptMax.def /\ wOptMax.n < wOptMin.n) => wDelay = lo

\* the longest wait of the range 6..8, and the single wait of an inverted range
C29_Witness ==
    /\ wPc = "waited"
    /\ \/ wOptMin = Opt(6) /\ wOptMax = Opt(8) /\ wDelay = 8
       \/ wOptMin = Opt(30) /\ wOptMax = Opt(10) /\ wDelay = 30

-----------------------------------------------------------------------------
(* Claims about lpopCountCompat(), checked under SpecList *)

RECURSIVE SumRet(_)
SumRet(S) == IF S = {} THEN 0
             ELSE LET d == CHOOSE x \in S : TRUE
                  IN  Len(dRet[d]) + SumRet(S \ {d})

\* r is a run of consecutive items of l
IsRunOf(r, l) ==
    \E i \in 1..(Len(l) + 1) :
       /\ i + Len(r) - 1 <= Len(l)
       /\ r = SubSeq(l, i, i + Len(r) - 1)

\* the first min(count, n) items of l, and the others
FirstOf(l, count) == [i \in 1..Min(count, Len(l)) |-> l[i]]
RestOf(l, count)  == [i \in 1..(Len(l) - Min(count, Len(l))) |-> l[i + Min(count, Len(l))]]

DrainReturns(d) == dPc[d] # "done" /\ dPc'[d] = "done"

\* C6: the arrays returned by concurrent lpopCountCompat calls, native,
\* emulated or mixed, are pairwise disjoint, each is a run of consecutive
\* items of the list in list order, and the items gone from the list are as
\* many as the items returned; what is left is the tail of the list.
C6_DrainDisjoint ==
    /\ \A d \in Drainers : IsRunOf(dRet[d], lAll)
    /\ \A d, e \in Drainers : d # e => Items(dRet[d]) \cap Items(dRet[e]) = {}
    /\ Len(lAll) - Len(list) = SumRet(Drainers)
    /\ list = SubSeq(lAll, SumRet(Drainers) + 1, Len(lAll))

\* a native call and an emulated call, both with count 3, have returned from a
\* list of 4 items: 4 items in total, none twice
C6_Witness ==
    \E d, e \in Drainers :
       /\ dPc[d] = "done" /\ dKind[d] = "array" /\ dCount[d] = 3
       /\ dPc[e] = "done" /\ dKind[e] = "none" /\ dCount[e] = 3
       /\ Len(lAll) = 4 /\ list = <<>>
       /\ Len(dRet[d]) + Len(dRet[e]) = 4
       /\ dRet[d] # <<>> /\ dRet[e] # <<>>

\* C7: without a native pop, lpopCountCompat(key, count) on a list of n items
\* returns its first min(count, n) items in order and leaves the other
\* n - min(count, n) items in order; an empty list gives an empty array.
C7_FallbackPop ==
    [][\A d \in Drainers :
          (DrainReturns(d) /\ dKind[d] = "none") =>
             /\ dRet'[d] = FirstOf(list, dCount[d])
             /\ list' = RestOf(list, dCount[d])
             /\ (list = <<>> => dRet'[d] = <<>>)]_vars

\* count 3 on [1, 2, 3, 4] without a native pop returned [1, 2, 3] and left [4]
C7_Witness ==
    \E d \in Drainers :
       /\ dPc[d] = "done" /\ dKind[d] = "none" /\ dCount[d] = 3
       /\ dRet[d] = <<1, 2, 3>> /\ list = <<4>> /\ lAll = <<1, 2, 3, 4>>

\* C24: in every interleaving with other clients' pushes and pops, the step
\* that executes the emulation's MULTI splits the list it finds in two: the
\* items it returns, in order, followed by the items it leaves; nothing is
\* discarded unseen and no returned item stays in the list.
C24_ExecIsOneUnit ==
    [][\A d \in Drainers :
          (dPc[d] = "fallback" /\ dPc'[d] = "done") =>
             /\ list = dRet'[d] \o list'
             /\ Items(dRet'[d]) \cap Items(list') = {}]_vars

\* an emulated pop of 2 ran after another caller's pop of 1 and around a push:
\* it returned [2, 3] and left [4]
C24_Witness ==
    \E d, e \in Drainers :
       /\ dPc[d] = "done" /\ dKind[d] \in {"none", "throws"} /\ dCount[d] = 2
       /\ dPc[e] = "done" /\ dRet[e] = <<1>>
       /\ dRet[d] = <<2, 3>> /\ list = <<4>> /\ lAll = <<1, 2, 3, 4>>

\* the reply of the native pop as lpopCountCompat(d) is about to receive it
NativeReplyOf(d) == NativeLpop(dKind[d], list, dCount[d])[1]

\* C32: a native pop that throws, or replies with neither an array nor a
\* string, is not surfaced: the call goes on to the MULTI, whose one exec ends
\* the call, with the range read as the result when it resolves and with the
\* error thrown when it rejects.
C32_FallsBackOnce ==
    [][\A d \in Drainers :
          /\ (dPc[d] = "native" /\ dPc'[d] # "native") =>
                IF NativeReplyOf(d).kind \in {"err", "nil"}
                THEN dPc'[d] = "fallback" /\ dRet'[d] = dRet[d]
                ELSE dPc'[d] = "done"
          /\ (dPc[d] = "fallback" /\ dPc'[d] # "fallback") =>
                \/ /\ dPc'[d] = "done"
                   /\ dRet'[d] = LRange(list, 0, dCount[d] - 1)
                   /\ list' = LTrim(list, dCount[d], -1)
                \/ /\ dPc'[d] = "threw"
                   /\ dRet'[d] = dRet[d]
          /\ (dPc[d] \in {"done", "threw"}) =>
                (dPc'[d] = dPc[d] /\ dRet'[d] = dRet[d])]_vars

\* a call whose native pop threw ended in the exec's error, and a second one
\* whose native pop threw returned the items of its MULTI
C32_Witness ==
    \E d, e \in Drainers :
       /\ dKind[d] = "throws" /\ dPc[d] = "threw"
       /\ dKind[e] = "throws" /\ dPc[e] = "done" /\ dCount[e] = 2
       /\ dRet[e] = <<1, 2>> /\ list = <<3>>

C36_NothingLost ==
    (\A d \in Drainers : dPc[d] = "idle" \/ (dPc[d] = "done" /\ dCount[d] >= 1)) =>
       Len(lAll) - Len(list) = SumRet(Drainers)

\* C8: whatever the client's lpop does (array, single value, throws, missing),
\* the call returns the first min(count, n) items of the list it finds and
\* leaves the others.
C8_VariantsEquivalent ==
    [][\A d \in Drainers :
          DrainReturns(d) =>
             /\ dRet'[d] = FirstOf(list, dCount[d])
             /\ list' = RestOf(list, dCount[d])]_vars

-----------------------------------------------------------------------------
(* Claims about keys(), checked under SpecScan *)

\* C9: the array keys() returns holds no key twice, also when the store's
\* scan returned a key in several pages; when no key was created or deleted
\* during the scan its length is min(number of matching keys, limit).
C9_KeysDedup ==
    kPc = "done" =>
       /\ ~HasDup(kOut)
       /\ ~touched => Len(kOut) = Min(Cardinality(stable), kLimit)

\* the store returned a key more than once, the key set was stable, and
\* keys() returned each of the keys once, below the limit
C9_Witness ==
    /\ kPc = "done" /\ sDup /\ ~touched
    /\ kScans >= 2
    /\ Cardinality(stable) >= 2
    /\ Len(kOut) = Cardinality(stable) /\ Len(kOut) < kLimit

\* C10: when keys() ends because the scan is complete and the limit was not
\* reached, every key that existed from the first to the last scan call is in
\* the result.
C10_KeysComplete ==
    (kPc = "done" /\ kCursor = 0 /\ Len(kOut) < kLimit) => stable \subseteq Items(kOut)

\* a scan of several pages ran to completion below the limit while other
\* clients created or deleted keys; the keys that stayed are in the result
C10_Witness ==
    /\ kPc = "done" /\ kCursor = 0 /\ Len(kOut) < kLimit
    /\ kScans >= 2 /\ touched
    /\ Cardinality(stable) >= 2
    /\ stable \subseteq Items(kOut)

\* C11: keys() returns at the moment its accumulator reaches `limit`: while it
\* is still scanning the accumulator is below the limit, the step that brings
\* the accumulator to the limit is the return of keys() with exactly `limit`
\* keys (the other keys of that page are left out) and an array, not an
\* error, as its result, and after the return no scan call is issued.
C11_StopsAtLimit ==
    /\ [](kPc = "scan" => Len(kAcc) < kLimit)
    /\ [](kPc = "done" => (Len(kOut) <= kLimit /\ kOut = kAcc))
    /\ [][ /\ (kPc = "scan" /\ Len(kAcc') >= kLimit) =>
                 (kPc' = "done" /\ Len(kOut') = kLimit /\ kScans' = kScans + 1)
           /\ (kPc = "done") => (kScans' = kScans /\ kOut' = kOut) ]_vars

\* keys() returned `limit` keys from the first page although the store had
\* returned more new keys in it and the cursor was not the sentinel
C11_Witness ==
    /\ kPc = "done" /\ kScans = 1 /\ kCursor # 0
    /\ kLimit = 1 /\ Len(kOut) = 1
    /\ Cardinality(sSeen) = 2

\* C12 as stated: when no key matches, keys() returns an empty array after
\* exactly one scan round trip.
C12_OneRoundTrip ==
    (kPc = "done" /\ ~touched /\ stable = {}) => (kOut = <<>> /\ kScans = 1)

\* C12, amended: when no key matches, keys() returns an empty array at the
\* first reply of the store that carries the sentinel cursor: after one round
\* trip when the first reply carries it, after more when the store hands out
\* empty pages with other cursors first.
C12_EmptyAtSentinel ==
    (kPc # "idle" /\ ~touched /\ stable = {}) =>
       /\ kAcc = <<>>
       /\ (kPc = "scan" /\ kScans >= 1) => kCursor # 0
       /\ (kPc = "done") => (kOut = <<>> /\ kCursor = 0 /\ kScans >= 1)

\* no key matched and the store ended the traversal at its second reply
C12_Witness ==
    /\ kPc = "done" /\ ~touched /\ stable = {}
    /\ kOut = <<>> /\ kScans = 2 /\ kCursor = 0

-----------------------------------------------------------------------------
(* Claims about getMany(), checked under SpecMany *)

CeilDiv(n, d) == (n + d - 1) \div d

RECURSIVE Concat(_)
Concat(qs) == IF qs = <<>> THEN <<>> ELSE Head(qs) \o Concat(Tail(qs))

MgetStep == Len(gCalls') = Len(gCalls) + 1

\* C13: getMany hands the enumerated keys to mget in contiguous chunks of at
\* most chunkSize keys, one mget per chunk: ceil(n / chunkSize) calls whose
\* chunks, put end to end, are the enumerated keys.  The result has exactly
\* one entry per enumerated key, so at most `limit` entries.  A key that does
\* not exist when its mget runs maps to null and a key holding the empty
\* string maps to ''.
C13_GetManyChunks ==
    /\ [](gPc = "done" =>
            /\ Len(gCalls) = CeilDiv(Len(kOut), gChunk)
            /\ Concat(gCalls) = kOut
            /\ \A c \in 1..Len(gCalls) : Len(gCalls[c]) \in 1..gChunk
            /\ {k \in ScanKeys : gResult[k] # NoProp} = Items(kOut)
            /\ Cardinality({k \in ScanKeys : gResult[k] # NoProp}) <= kLimit)
    /\ [][MgetStep =>
            \A k \in Items(gCalls'[Len(gCalls')]) :
               /\ k \notin present => gResult'[k] = JNull
               /\ (k \in present /\ k \in EmptyValued) => gResult'[k] = JStr("")
               /\ (k \in present /\ k \notin EmptyValued) => gResult'[k] = JStr("text")]_vars

\* three keys were enumerated and read by two mget calls of chunkSize 2; one
\* key was deleted between the scan and its mget and maps to null, another
\* holds the empty string
C13_Witness ==
    /\ gPc = "done" /\ gChunk = 2
    /\ Len(kOut) = 3 /\ Len(gCalls) = 2
    /\ \E a, b \in ScanKeys : gResult[a] = JNull /\ gResult[b] = JStr("")

-----------------------------------------------------------------------------
(* Claims about dropMany(), checked under SpecDrop *)

C15_DropAll ==
    [][(xPc # "done" /\ xPc' = "done" /\ ~touched) =>
          /\ xOut' = Returned(Cardinality(xInit))
          /\ present' = {}
          /\ xDeleted' = Cardinality(xInit)]_vars

\* three keys were dropped with size 1 in pages of two keys, undisturbed
C15_Witness ==
    /\ xPc = "done" /\ ~touched
    /\ Cardinality(xInit) = 3 /\ xSize = 1
    /\ xOut = Returned(3) /\ present = {}
    /\ xCmds = 5

\* C16: when a scan or a delete of dropMany fails, the call throws the one
\* generic error, which carries neither the cause nor the count reached; the
\* call issues no store command after the failure, and the failing step
\* restores no key.
C16_DropFails ==
    /\ [](xPc = "threw" => xOut = GenericError)
    /\ [][ /\ (xPc # "threw" /\ xPc' = "threw") => present' \subseteq present
           /\ (xPc = "threw") =>
                 (xPc' = "threw" /\ xOut' = xOut /\ xCmds' = xCmds /\ xDeleted' = xDeleted) ]_vars

\* the second delete of the call failed: the keys of the first chunk are gone,
\* a counted key still exists, and the generic error is the outcome
C16_Witness ==
    /\ xPc = "threw" /\ xOut = GenericError
    /\ ~touched
    /\ xTotal = 2 /\ xDeleted = 1 /\ xCmds = 3
    /\ Cardinality(present) = Cardinality(xInit) - 1

IsPrefixOf(a, b) == Len(a) <= Len(b) /\ a = SubSeq(b, 1, Len(a))

\* C25: dropMany returns only after the store has replied cursor 0; every
\* delete command it issues carries between 1 and size keys of the page just
\* received and is an unlink when the client has one, a del otherwise; and a
\* scan is issued only when every key of the previous page has been submitted.
C25_DropWholePages ==
    /\ [](xPc = "done" => xCursor = 0 /\ xSent = xPage)
    /\ [][ /\ (xPc = "del" /\ xCmds' # xCmds) =>
                 /\ xCmd'.op = (IF xUnlink THEN "unlink" ELSE "del")
                 /\ Len(xCmd'.keys) \in 1..xSize
                 /\ xSent' = xSent \o xCmd'.keys
                 /\ IsPrefixOf(xSent', xPage)
           /\ (xPc = "scan" /\ xCmds' # xCmds) =>
                 /\ xCmd'.op = "scan"
                 /\ xSent = xPage
                 /\ (xCmds > 0 => xCursor # 0) ]_vars

\* a client with unlink dropped pages of 2 keys with size 1: the last command
\* was an unlink of one key, after 2 scans and 3 deletes
C25_Witness ==
    /\ xPc = "done" /\ xUnlink /\ xSize = 1
    /\ xCmd.op = "unlink" /\ Len(xCmd.keys) = 1
    /\ Len(xPage) = 1 /\ xTotal = 3 /\ xCmds = 5

-----------------------------------------------------------------------------
(* Claims about getList() and getListIterator(), checked under SpecPager and
   FairSpecPager *)

IterReturns(r) == iPc[r] # "done" /\ iPc'[r] = "done"

\* C17: with no concurrent access, getList(key, limit, true) returns every
\* item of the list in list order and leaves the list empty, for every list
\* length, every limit >= 1 and every store variant.
C17_DestructiveReadsAll ==
    [][\A r \in Readers :
          (IterReturns(r) /\ iRemove[r] /\ ~iTouched'[r]) =>
             (iOut'[r] = iSnap[r] /\ list' = <<>>)]_vars

Increasing(q) == \A i, j \in 1..Len(q) : i < j => q[i] < q[j]

\* C39: when the destructive traversals of both readers have ended and no
\* client has pushed, every item of the initial list was yielded to exactly
\* one reader, each reader got its items in list order, and the list is
\* empty.
C39_DrainTwoComplete ==
    (\A r \in Readers : iPc[r] = "done" /\ iRemove[r]) =>
       /\ list = <<>>
       /\ \A r \in Readers : Increasing(iOut[r]) /\ ~HasDup(iOut[r])
       /\ \A r, q \in Readers : r # q => Items(iOut[r]) \cap Items(iOut[q]) = {}
       /\ UNION {Items(iOut[r]) : r \in Readers} = Items(lAll)

\* C18 as stated: every traversal ends, whatever concurrent clients do.
C18_AlwaysEnds == \A r \in PagerReaders : <>(iPc[r] = "done")

\* C18, amended: a non-destructive traversal ends whatever concurrent clients
\* do; a destructive traversal ends once the clients stop making the list
\* longer, and may go on for ever while they keep pushing.
C18_EndsUnlessRefilled ==
    \A r \in PagerReaders :
       /\ (iPc[r] = "llen") ~> (iPc[r] = "done")
       /\ (<>[][Len(list') <= Len(list)]_vars) => <>(iPc[r] = "done")

\* a destructive traversal through the emulated pop has ended on an empty list
C18_Witness ==
    \E r \in PagerReaders :
       /\ iPc[r] = "done" /\ iRemove[r] /\ iKind[r] = "none"
       /\ iLimit[r] = 1 /\ list = <<>>

C20_AnomalyNeedsWriter ==
    \A r \in Readers :
       ( /\ iPc[r] = "done" /\ ~iRemove[r]
         /\ HasDup(iOut[r]) \/ ~(iStay[r] \subseteq Items(iOut[r])) )
       => iTouched[r]

\* one traversal yielded an item twice (after a head push) and skipped an
\* item that stayed in the list (after pops)
C20_Witness ==
    \E r \in Readers :
       /\ iPc[r] = "done" /\ ~iRemove[r]
       /\ HasDup(iOut[r])
       /\ ~(iStay[r] \subseteq Items(iOut[r]))

\* the step on which reader r's pop hands its batch to the loop
PopReturns(r) ==
    /\ iRemove[r] /\ iPc[r] \in {"native", "fallback"}
    /\ (iPc'[r] = "done" \/ iOut'[r] # iOut[r])

\* C26: in destructive mode every pop hands the loop at most limit items, the
\* items it took off the head of the list; an empty batch ends the traversal
\* with nothing yielded, a batch shorter than limit is yielded and ends it, a
\* full batch is yielded and the loop goes on; after the end nothing more is
\* yielded.
C26_DestructiveStops ==
    [][\A r \in Readers :
          /\ PopReturns(r) =>
                LET k == Len(iOut'[r]) - Len(iOut[r]) IN
                /\ k \in 0..iLimit[r]
                /\ k = Len(list) - Len(list')
                /\ iOut'[r] = iOut[r] \o SubSeq(list, 1, k)
                /\ iBatches'[r] = iBatches[r] + (IF k = 0 THEN 0 ELSE 1)
                /\ (iPc'[r] = "done") <=> (k < iLimit[r])
          /\ (iRemove[r] /\ iPc[r] = "done") =>
                /\ iPc'[r] = "done"
                /\ iOut'[r] = iOut[r]
                /\ iBatches'[r] = iBatches[r]
                /\ list' = list]_vars

\* limit 2: a full batch, then a batch of one item that ended the traversal
C26_Witness ==
    \E r \in Readers :
       /\ iPc[r] = "done" /\ iRemove[r] /\ iLimit[r] = 2
       /\ iBatches[r] = 2 /\ Len(iOut[r]) = 3

\* the step on which reader r's window read returns
RangeReturns(r) == ~iRemove[r] /\ iPc[r] = "range" /\ iStart'[r] # iStart[r]

\* C27 as stated: every window read returns the items at the indices start to
\* start + limit - 1 of the list it finds.
C27_FixedWindows ==
    [][\A r \in Readers :
          RangeReturns(r) =>
             iOut'[r] = iOut[r] \o LRange(list, iStart[r], iStart[r] + iLimit[r] - 1)]_vars

\* C27: in non-destructive mode the length n is read once; the window read at
\* start, for start = 0, limit, 2 * limit, ... while start < n, covers the
\* indices start to min(start + limit - 1, n - 1); its items are yielded as one
\* batch unless there are none, and start advances by limit either way.
C27_ClampedWindows ==
    /\ [](\A r \in Readers :
             (~iRemove[r] /\ iPc[r] \in {"range", "done"}) =>
                \E j \in 0..MaxItems : iStart[r] = j * iLimit[r])
    /\ [][\A r \in Readers :
             /\ (~iRemove[r] /\ iPc[r] = "llen" /\ iPc'[r] # "llen") =>
                   /\ iN'[r] = Len(list)
                   /\ iStart'[r] = 0
                   /\ (iPc'[r] = "range") <=> (Len(list) > 0)
             /\ (~iRemove[r] /\ iPc[r] \in {"range", "done"}) => iN'[r] = iN[r]
             /\ RangeReturns(r) =>
                   LET w == LRange(list, iStart[r],
                                   Min(iStart[r] + iLimit[r] - 1, iN[r] - 1))
                   IN  /\ iStart[r] < iN[r]
                       /\ iOut'[r] = iOut[r] \o w
                       /\ iBatches'[r] = iBatches[r] + (IF w = <<>> THEN 0 ELSE 1)
                       /\ iStart'[r] = iStart[r] + iLimit[r]
                       /\ iPc'[r] = IF iStart'[r] < iN[r] THEN "range" ELSE "done"
                       /\ list' = list]_vars

\* limit 2 and n = 3: a fourth item was pushed before the last window was
\* read, and the traversal, clamped at index 2, returned three items
C27_Witness ==
    \E r \in Readers :
       /\ iPc[r] = "done" /\ ~iRemove[r] /\ iLimit[r] = 2 /\ iN[r] = 3
       /\ iStart[r] = 4 /\ Len(iOut[r]) = 3 /\ Len(list) = 4 /\ iBatches[r] = 2

\* C21: getList(key, limit, remove) returns at most `limit` items in total, in
\* both modes, for every list length.
C21_AtMostLimit ==
    \A r \in Readers : iPc[r] = "done" => Len(iOut[r]) <= iLimit[r]

-----------------------------------------------------------------------------
(* Claims about toKeyString() and toPatternString(), checked under SpecBuild *)

\* C22: toKeyString and toPatternString throw whenever some segment is empty
\* or contains ':' or whitespace, leading and trailing whitespace included
\* (and, for toKeyString, a glob character); a string they return contains no
\* whitespace.
C22_BuildRejectsWhitespace ==
    bOp # "none" =>
       /\ (\E i \in 1..Len(bParts) :
              \/ bParts[i] = <<>>
              \/ HasChar(bParts[i], {":"} \cup WhiteChars)
              \/ bOp = "key" /\ HasChar(bParts[i], GlobChars)) => bOut.threw
       /\ ~bOut.threw => ~HasChar(bOut.s, WhiteChars)

-----------------------------------------------------------------------------
(* Claims about toPayload() and fromPayload(), checked under SpecPayload *)

\* C23: for every Jsonish value v (null, booleans, numbers, strings, among
\* them '', numeric-looking and boolean-like ones, arrays, objects),
\* fromPayload(toPayload(v)) equals v.
C23_PayloadRoundTrip == vPc = "back" => vBack = vIn

-----------------------------------------------------------------------------
(* Claims about the cursor of keys() and dropMany(), checked under
   FairSpecTraverse *)

\* C34: keys and dropMany start with cursor 0, hold between two scans the
\* cursor the store replied with last, scan again only after a reply other
\* than 0, and end: keys at the limit or at the reply 0, dropMany at the reply
\* 0, which the store gives after finitely many pages.
C34_CursorAndEnd ==
    /\ [](kPc = "scan" => kCursor = sReply)
    /\ [](xPc \in {"scan", "del"} => xCursor = sReply)
    /\ [](kPc = "done" => (sReply = 0 \/ Len(kOut) >= kLimit))
    /\ [](xPc = "done" => sReply = 0)
    /\ [][ /\ (kPc = "idle" /\ kPc' = "scan") => kCursor' = 0
           /\ (xPc = "idle" /\ xPc' = "scan") => xCursor' = 0
           /\ (kScans' # kScans /\ kScans' # 0) => (kScans = 0 \/ sReply # 0)
           /\ (xCmds' # xCmds /\ xCmd'.op = "scan") => (xCmds = 0 \/ sReply # 0)
           /\ (kPc = "done") => (kPc' = "done" /\ kScans' = kScans)
           /\ (xPc = "done") => (xPc' = "done" /\ xCmds' = xCmds) ]_vars
    /\ ((kPc = "scan") ~> (kPc = "done"))
    /\ ((xPc \in {"scan", "del"}) ~> (xPc = "done"))

\* keys ended below its limit after three scans, at the reply 0
C34_Witness ==
    /\ kPc = "done" /\ kScans = 3 /\ sReply = 0 /\ Len(kOut) < kLimit

-----------------------------------------------------------------------------
(* Claims about checkConnection(), checked under SpecGuard *)

\* the client is not usable: not 'ready', and strict mode is on or the status
\* is neither 'connecting' nor 'reconnecting'
ConnectionDown ==
    cStatus # "ready" /\ (cStrict \/ cStatus \notin {"connecting", "reconnecting"})

SomeRefused ==
    \/ kPc = "refused" \/ xPc = "refused"
    \/ \E r \in Readers : iPc[r] = "refused"
    \/ \E c \in Callers : pc[c] = "refused"

\* C31: a call of keys, getMany, getList, dropMany or lock made while the
\* connection check fails ends with the connection error, changes nothing in
\* the store and leaves no store command of the call to be issued; a call
\* made while the check passes ('ready', or 'connecting' / 'reconnecting'
\* outside strict mode) is not refused.
C31_GuardRefuses ==
    /\ [](~NoCallYet => (ConnectionDown <=> SomeRefused))
    /\ [](kPc = "refused" =>
             /\ kScans = 0 /\ gPc \in {"idle", "refused"} /\ gCalls = <<>>
             /\ ~ENABLED (KeysScan \/ ManyKeysDone \/ ManyMget))
    /\ [](xPc = "refused" =>
             /\ xOut = ConnectionError /\ xCmds = 0
             /\ ~ENABLED (DropScan \/ DropDelete \/ DropScanFails \/ DropDeleteFails))
    /\ [](\A r \in Readers : iPc[r] = "refused" =>
             /\ iOut[r] = <<>>
             /\ ~ENABLED (IterNative(r) \/ IterFallback(r) \/ IterLlen(r) \/ IterRange(r)))
    /\ [](\A c \in Callers : pc[c] = "refused" =>
             /\ lockRes[c] = "connection" /\ attempt[c] = 0
             /\ ~ENABLED (LockAttempt(c) \/ LockAttemptThrows(c) \/ LockWake(c)
                            \/ Unlock(c)))
    /\ [][ConnectionDown => (kv' = kv /\ list' = list /\ present' = present)]_vars

\* in strict mode a getMany made while the client is connecting was refused
\* inside its keys() call, with three keys in the store
C31_Witness ==
    /\ cStatus = "connecting" /\ cStrict
    /\ kPc = "refused" /\ gPc = "refused"
    /\ Cardinality(present) = 3

\* the call of c ends without a PEXPIRE executed by the store
EndsUnexpired(c) ==
    /\ nPc[c] = "expire"
    /\ nPc'[c] \in {"threw", "stopped"}
    /\ ~nApplied'[c]

\* C40: incr(key, ttl) with ttl > 0 is two store commands. The INCR step
\* raises the counter by one and leaves the key's time to live as it was,
\* and the call then stands before its PEXPIRE, where any client may read
\* the counter; a call that throws on a PEXPIRE the store did not execute,
\* or whose caller stops before it, leaves both the incremented counter and
\* the old time to live, takes no further step, and the only way the
\* counter ever goes down is the expiry of the key.
C40_IncrThenExpire ==
    /\ [](\A c \in IncrCallers : nPc[c] = "expire" =>
             /\ IsNumP(nArg[c])
             /\ ~nApplied[c]
             /\ (ENABLED CounterRead) \/ nObs = CounterView(TRUE))
    /\ [][/\ \A c \in IncrCallers :
               /\ (nPc[c] \in {"idle", "done"} /\ nPc'[c] = "expire")
                     => (nVal' = nVal + 1 /\ nRes'[c] = nVal' /\ nTtl' = nTtl)
               /\ EndsUnexpired(c) => (nVal' = nVal /\ nTtl' = nTtl)
               /\ nPc[c] \in {"threw", "stopped"} => nPc'[c] = nPc[c]
          /\ nTtl' # nTtl =>
                \/ nVal' = 0 /\ nTtl' = 0
                \/ \E c \in IncrCallers :
                      nPc[c] = "expire" /\ nApplied'[c] /\ nTtl' = nArg[c].n
          /\ nVal' < nVal => (nTtl > 0 /\ nVal' = 0)]_vars

\* a call with ttl > 0 has ended without its PEXPIRE, the counter still
\* holds the value that call produced and has no time to live, and another
\* client read that value without a time to live between the two commands
C40_Witness ==
    \E c \in IncrCallers :
        /\ nPc[c] \in {"threw", "stopped"}
        /\ ~nApplied[c]
        /\ nVal = nRes[c]
        /\ nTtl = 0
        /\ nObs = CounterView(TRUE)

====
